---- MODULE Spec2Model ----
(***************************************************************************)
(* A model of can_a552_logger.py: the CANopen session of main() (NMT, SDO  *)
(* configuration, PDO streaming and sample assembly, shutdown) and the     *)
(* pure helpers it calls (COB-ID derivation, profile resolution, SDO       *)
(* encoding).                                                              *)
(*                                                                         *)
(* Conventions.  Python strings are TLA+ strings.  A CAN payload is a      *)
(* tuple of bytes.  A 32-bit value read from the wire is kept as its four  *)
(* little-endian bytes, so that bit 31 is "byte 3 >= 128".  A decimal      *)
(* constant m * 10^e is the pair <<m, e>>.                                 *)
(***************************************************************************)
EXTENDS Integers, Sequences, FiniteSets, TLC

\* ------------------------------------------------------------------------
\* Bounds of the model
\* ------------------------------------------------------------------------
MaxSample == 2
MaxSkip == 1
MaxHb == 1
MaxCodeLen == 9
MaxOverrun == 1
MaxBetween == 2
MaxSync == 1

\* ------------------------------------------------------------------------
\* Python helpers
\* ------------------------------------------------------------------------
Min(a, b) == IF a < b THEN a ELSE b

\* s[:n]
Slice(s, n) == SubSeq(s, 1, Min(n, Len(s)))

\* x in s, for two strings: x is a contiguous substring of s
InStr(x, s) == \E i \in 1..(Len(s) + 1) :
                   /\ i + Len(x) - 1 <= Len(s)
                   /\ SubSeq(s, i, i + Len(x) - 1) = x

Digits == "0123456789"
Upper == "ABCDEFGHIJKLMNOPQRSTUVWXYZ"
Lower == "abcdefghijklmnopqrstuvwxyz"

\* chr(b) for space, digits and letters; any other byte is shown as "?"
Chr(b) == IF b = 32 THEN " "
          ELSE IF b >= 48 /\ b <= 57 THEN SubSeq(Digits, b - 47, b - 47)
          ELSE IF b >= 65 /\ b <= 90 THEN SubSeq(Upper, b - 64, b - 64)
          ELSE IF b >= 97 /\ b <= 122 THEN SubSeq(Lower, b - 96, b - 96)
          ELSE "?"

\* ord(c) for a one-character string
Ord(c) == CHOOSE b \in 32..122 : Chr(b) = c

\* struct.pack("<H", n) and struct.pack("<I", n), n < 2^31
LE16(n) == <<n % 256, (n \div 256) % 256>>
LE32(n) == <<n % 256, (n \div 256) % 256, (n \div 65536) % 256, (n \div 16777216) % 256>>

\* struct.unpack of "<H" at offset k (1-based) of a payload
U16At(d, k) == d[k] + 256 * d[k + 1]

\* the four bytes of an "<I" field at offset k
U32At(d, k) == <<d[k], d[k + 1], d[k + 2], d[k + 3]>>

\* rd & 0x80000000 is non-zero
Bit31(v) == v[4] >= 128

\* rd & ~0x80000000, which fits in 31 bits
ClearBit31(v) == v[1] + 256 * v[2] + 65536 * v[3] + 16777216 * (v[4] % 128)

\* a | bit, for a single-bit value
BitOr(a, bit) == IF (a \div bit) % 2 = 1 THEN a ELSE a + bit

Dec(m, e) == <<m, e>>

\* the four little-endian bytes of a 4-character string
Str4(s) == <<Ord(SubSeq(s, 1, 1)), Ord(SubSeq(s, 2, 2)), Ord(SubSeq(s, 3, 3)), Ord(SubSeq(s, 4, 4))>>

IsPrefix(s, t) == Len(s) <= Len(t) /\ SubSeq(t, 1, Len(s)) = s

\* ------------------------------------------------------------------------
\* Tables
\* ------------------------------------------------------------------------
FILTER_SEL == [MV_AVG0 |-> 0, MV_AVG2 |-> 1, MV_AVG4 |-> 2, MV_AVG8 |-> 3,
               MV_AVG16 |-> 4, MV_AVG32 |-> 5, MV_AVG64 |-> 6, MV_AVG128 |-> 7,
               K32_FC50 |-> 8, K32_FC100 |-> 9, K32_FC200 |-> 10, K32_FC400 |-> 11,
               K64_FC50 |-> 12, K64_FC100 |-> 13, K64_FC200 |-> 14, K64_FC400 |-> 15,
               K128_FC50 |-> 16, K128_FC100 |-> 17, K128_FC200 |-> 18, K128_FC400 |-> 19]

FILTER_SEL2 == [MV_AVG0 |-> 0, MV_AVG2 |-> 1, MV_AVG4 |-> 2, MV_AVG8 |-> 3,
                MV_AVG16 |-> 4, MV_AVG32 |-> 5, MV_AVG64 |-> 6, MV_AVG128 |-> 7,
                K32_FC25 |-> 8, K32_FC50 |-> 9, K32_FC100 |-> 10, K32_FC200 |-> 11,
                K64_FC25 |-> 12, K64_FC50 |-> 13, K64_FC100 |-> 14, K64_FC200 |-> 15,
                K128_FC25 |-> 16, K128_FC50 |-> 17, K128_FC100 |-> 18, K128_FC200 |-> 19]

FILTER_SEL_ACC == [K64_FC83 |-> 1, K64_FC220 |-> 2, K128_FC36 |-> 3, K128_FC110 |-> 4,
                   K128_FC350 |-> 5, K512_FC9 |-> 6, K512_FC16 |-> 7, K512_FC60 |-> 8,
                   K512_FC210 |-> 9, K512_FC460 |-> 10, UDF4 |-> 11, UDF64 |-> 12,
                   UDF128 |-> 13, UDF512 |-> 14]

\* keyed by str(int(drate)); int() truncates 62.5, 31.25 and 15.625, so
\* those three keys are never looked up
DRATE_SEL == ("2000" :> 0) @@ ("1000" :> 1) @@ ("500" :> 2) @@ ("250" :> 3) @@
             ("125" :> 4) @@ ("62.5" :> 5) @@ ("31.25" :> 6) @@ ("15.625" :> 7) @@
             ("400" :> 8) @@ ("200" :> 9) @@ ("100" :> 10) @@ ("80" :> 11) @@
             ("50" :> 12) @@ ("40" :> 13) @@ ("25" :> 14) @@ ("20" :> 15)

DRATE_SEL2 == ("1000" :> 1) @@ ("500" :> 2) @@ ("200" :> 5) @@ ("10" :> 10) @@ ("50" :> 50)

BRATE_SEL == ("1000000" :> 0) @@ ("800000" :> 1) @@ ("500000" :> 2) @@ ("250000" :> 3) @@
             ("125000" :> 4) @@ ("50000" :> 5) @@ ("20000" :> 6) @@ ("10000" :> 7)

cob_id == [NMT |-> 0, SYNC |-> 128, TIME |-> 256, TPDO1 |-> 384, TPDO2 |-> 640,
           TPDO3 |-> 896, TPDO4 |-> 1152, RSDO |-> 1408, TSDO |-> 1536,
           HBx |-> 1792, HB |-> 1792, HB1 |-> 1793, HB2 |-> 1794]

nmt == [START |-> 1, STOP |-> 2, PRE_OP |-> 128, RES_NODE |-> 129, RES_COMM |-> 130]

\* The largest node id and the largest node count of the command line help
MaxNodeId == 127
MaxNodeNum == 8

\* A derivation that offsets TPDO2 from the base of TPDO1
set_cobidPasteBug(t, node_id) ==
    [t EXCEPT !.TPDO1 = @ + node_id, !.TPDO2 = t.TPDO1 + node_id, !.TPDO3 = @ + node_id,
              !.TPDO4 = @ + node_id, !.RSDO = @ + node_id, !.TSDO = @ + node_id,
              !.HBx = @ + node_id]

\* set_cobid(node_id) applied to the table t
set_cobid(t, node_id) ==
    [t EXCEPT !.TPDO1 = @ + node_id, !.TPDO2 = @ + node_id, !.TPDO3 = @ + node_id,
              !.TPDO4 = @ + node_id, !.RSDO = @ + node_id, !.TSDO = @ + node_id,
              !.HBx = @ + node_id]

\* set_hb_id(node_num): the map "HB<i>" -> 0x700 + i, as the set of its values
\* indexed by i
set_hb_id(node_num) == [i \in 1..node_num |-> 1792 + i]

\* ------------------------------------------------------------------------
\* Device profile resolution
\* ------------------------------------------------------------------------
\* An exception raised instead of a value
Raise(e) == [exc |-> e]

\* The dictionary sf returned by setModel
Scales(g, a, t, o) == ("exc" :> "none") @@ ("SF_GYRO" :> g) @@ ("SF_ACCL" :> a) @@
                      ("SF_TEMP" :> t) @@ ("TEMPC_25C" :> o)

\* setModel(imuModel).  A branch on the length whose inner chain matches no
\* name leaves SF_GYRO unassigned, and the read at "sf['SF_GYRO']=SF_GYRO"
\* raises UnboundLocalError; lengths 5 and 6 reach the final else.
setModel(imuModel) ==
    LET length == Len(imuModel)
        p7 == Slice(imuModel, 7)
        old == Scales(Dec(151515, -7), Dec(4, -1), Dec(-37918, -7), Dec(-2634, 0))
        new == Scales(Dec(151515, -7), Dec(5, -1), Dec(39063, -7), Dec(0, 0))
        g320 == Scales(Dec(8, -3), Dec(2, -1), Dec(-37918, -7), Dec(-2634, 0))
    IN  IF length <= 4 THEN
            IF imuModel = "G320" THEN g320
            ELSE IF imuModel = "G354" THEN
                Scales(Dec(16, -3), Dec(20, -2), Dec(-37918, -7), Dec(-2634, 0))
            ELSE IF imuModel = "G570" THEN old
            ELSE IF imuModel = "MIU" THEN old
            ELSE Raise("UnboundLocalError")
        ELSE IF length >= 8 THEN
            IF imuModel = "G364PDC0" THEN
                Scales(Dec(75, -4), Dec(125, -3), Dec(-37918, -7), Dec(-2634, 0))
            ELSE IF imuModel = "G364PDCA" THEN
                Scales(Dec(375, -5), Dec(125, -3), Dec(-37918, -7), Dec(-2634, 0))
            ELSE IF p7 \in {"G365PDC", "G370PDC"} THEN
                Scales(Dec(151515, -7), Dec(16, -2), Dec(-37918, -7), Dec(-2634, 0))
            ELSE IF p7 \in {"G365PDF", "G370PDF", "G552PR7", "G552PR1", "G570PR1",
                            "G552PC1", "G552PC7"} THEN old
            ELSE IF p7 \in {"G570PR2", "G370PDG"} THEN new
            ELSE IF p7 \in {"G550PC2", "G55T2A0", "G55P200"} THEN g320
            ELSE Raise("UnboundLocalError")
        ELSE IF length = 7 THEN
            IF imuModel \in {"G552PR7", "G552PR1", "G570PR1", "G365PDF", "G370PDF"} THEN old
            ELSE IF imuModel \in {"G570PR2", "G370PDG"} THEN new
            ELSE Raise("UnboundLocalError")
        ELSE Scales(Dec(1, 0), Dec(1, 0), Dec(1, 0), Dec(0, 0))

\* A resolver that looks the code up by its first four characters
set_SCLShortName(m) == setModel(Slice(m, 4))

\* set_SCL(model): the dictionary whose entries are assigned to the globals
\* GYRO_SF, ACCL_SF, TEMPC_SF and TEMPC_25C, or the exception of setModel
set_SCL(m) ==
    IF Slice(m, 7) \in {"A552AC1", "A55A200"}
    THEN Scales(Dec(0, 0), Dec(596046, -10), Dec(-37918, -7), Dec(34987, -3))
    ELSE setModel(m)

\* The globals written from the dictionary sf
ScaleGlobals(sf) == [GYRO_SF |-> sf["SF_GYRO"], ACCL_SF |-> sf["SF_ACCL"],
                     TEMPC_SF |-> sf["SF_TEMP"], TEMPC_25C |-> sf["TEMPC_25C"]]

\* The module-level values of GYRO_SF, ACCL_SF, TEMPC_SF, TEMPC_25C (MODEL)
InitScales == [GYRO_SF |-> Dec(8, -3), ACCL_SF |-> Dec(2, -1),
               TEMPC_SF |-> Dec(-37918, -7), TEMPC_25C |-> Dec(0, 0)]

\* model[:1] in ('A'): a substring test against the string 'A'
IsAcc(m) == InStr(Slice(m, 1), "A")

\* get_pdo_struct_fmt(model): the four struct formats
get_pdo_struct_fmt(m) ==
    IF IsAcc(m)
    THEN [STRUCT_TPDO1 |-> "<ii", STRUCT_TPDO2 |-> "<iH", STRUCT_TPDO3 |-> "<HI", STRUCT_TPDO4 |-> "<i"]
    ELSE [STRUCT_TPDO1 |-> "<Hhhh", STRUCT_TPDO2 |-> "<Hhhh", STRUCT_TPDO3 |-> "<Hhhh", STRUCT_TPDO4 |-> "<HIH"]

\* The module-level struct formats
InitLayout == [STRUCT_TPDO1 |-> "<ii", STRUCT_TPDO2 |-> "<iH", STRUCT_TPDO3 |-> "<HI", STRUCT_TPDO4 |-> "<i"]

\* ------------------------------------------------------------------------
\* Frame encodings
\* ------------------------------------------------------------------------
\* str(n) for a natural number
RECURSIVE str(_)
str(n) == IF n < 10 THEN SubSeq(Digits, n + 1, n + 1)
          ELSE str(n \div 10) \o SubSeq(Digits, (n % 10) + 1, (n % 10) + 1)

\* The integer unpacked from an "<I" field, for a value below 2^31
U32Val(v) == v[1] + 256 * v[2] + 65536 * v[3] + 16777216 * v[4]

\* A packing that writes the index most significant byte first
sdo_write_dataBigEndian(byte, idx, subindex, dat) ==
    IF byte = 1 THEN <<47, (idx \div 256) % 256, idx % 256, subindex, dat, 0, 0, 0>>
    ELSE IF byte = 2 THEN <<43, (idx \div 256) % 256, idx % 256, subindex>> \o LE16(dat) \o <<0, 0>>
    ELSE <<35, (idx \div 256) % 256, idx % 256, subindex>> \o LE32(dat)

\* A packing that uses the command byte of a 4-byte write for every width
sdo_write_dataOneCmd(byte, idx, subindex, dat) ==
    <<35>> \o LE16(idx) \o <<subindex>> \o LE32(dat)

\* The payload packed by sdo_write(bus_, byte, index, subindex, dat)
sdo_write_data(byte, idx, subindex, dat) ==
    IF byte = 1 THEN <<47>> \o LE16(idx) \o <<subindex, dat, 0, 0, 0>>
    ELSE IF byte = 2 THEN <<43>> \o LE16(idx) \o <<subindex>> \o LE16(dat) \o <<0, 0>>
    ELSE <<35>> \o LE16(idx) \o <<subindex>> \o LE32(dat)

\* The payload packed by sdo_read(bus_, byte, index, subindex)
sdo_read_data(byte, idx, subindex) == <<64>> \o LE16(idx) \o <<subindex>> \o LE32(0)

\* The host clock read by time_send: time since 1984-01-01 as a timedelta
HostClock == [days |-> 14000, seconds |-> 3, microseconds |-> 10000]

\* A TIME payload whose second field counts milliseconds, not 1/16 ms
time_of_dayMs(now) ==
    LE16(now.days) \o LE32(now.seconds * 1000 + now.microseconds \div 1000)

\* The payload packed by time_send: int() truncates the float
\* (seconds * 1000 + microseconds / 1000) * 16
time_of_day(now) ==
    LE16(now.days) \o LE32(now.seconds * 16000 + (now.microseconds * 16) \div 1000)

\* The exception of struct.pack("<HI", day_, int(ms_)) in time_send
time_send_exc(now) == IF now.days \in 0..65535 THEN "none" ELSE "struct.error"

\* round(n / 2), a half rounded to the even neighbour, as timedelta does
RoundHalf(n) == IF n % 2 = 1 /\ (n \div 2) % 2 = 1 THEN n \div 2 + 1 ELSE n \div 2

\* print_row: CANOPEN_ERA_ + timedelta(days=time_days_) +
\* timedelta(microseconds=time_millisecs_ * 1000), where time_millisecs_ is
\* the 32-bit field ticks of the frame divided by 16; the result is the
\* time since CANOPEN_ERA_
time_stamp_(time_days_, ticks) ==
    LET ms == ticks \div 16
    IN  [days |-> time_days_ + ms \div 86400000,
         seconds |-> (ms \div 1000) % 86400,
         microseconds |-> (ms % 1000) * 1000 + RoundHalf((ticks % 16) * 125)]

\* struct.calcsize of the formats in use
calcsize(fmt) == CASE fmt = "<ii" -> 8
                   [] fmt = "<iH" -> 6
                   [] fmt = "<HI" -> 6
                   [] fmt = "<i" -> 4
                   [] fmt = "<Hhhh" -> 8
                   [] fmt = "<HIH" -> 8
                   [] fmt = "<B" -> 1
                   [] fmt = "<BHBI" -> 8

Zeros(n) == [i \in 1..n |-> 0]

\* ------------------------------------------------------------------------
\* The session: command-line arguments
\* ------------------------------------------------------------------------
\* sync_hz 0 and time_per_nsamples 0 stand for None, filter "None" for None;
\* drate is in 1/1000 Hz
DefaultArgs == [can_id |-> 1, can_id_new |-> 1, node_num |-> 1,
                bitrate |-> 1000000, bitrate_new |-> 1000000,
                sync_hz |-> 0, drate |-> 1000000, filter |-> "None",
                tempc |-> FALSE, noscale |-> FALSE, svcfg |-> FALSE,
                time_per_nsamples |-> 0, max_sample |-> 1]

\* The configuration options exercised: each option alone, all optional
\* steps together for each family, and node 2 of two nodes with a TIME
\* message requested for every sample
Variants ==
    {DefaultArgs,
     [DefaultArgs EXCEPT !.can_id_new = 2],
     [DefaultArgs EXCEPT !.bitrate_new = 500000],
     [DefaultArgs EXCEPT !.bitrate_new = 123],
     [DefaultArgs EXCEPT !.sync_hz = 100],
     [DefaultArgs EXCEPT !.drate = 10000],
     [DefaultArgs EXCEPT !.drate = 7000],
     [DefaultArgs EXCEPT !.filter = "MV_AVG0"],
     [DefaultArgs EXCEPT !.filter = "K64_FC83"],
     [DefaultArgs EXCEPT !.tempc = TRUE],
     [DefaultArgs EXCEPT !.svcfg = TRUE],
     [DefaultArgs EXCEPT !.can_id_new = 2, !.bitrate_new = 500000, !.filter = "MV_AVG0",
                         !.tempc = TRUE, !.svcfg = TRUE],
     [DefaultArgs EXCEPT !.can_id_new = 2, !.bitrate_new = 500000, !.filter = "K64_FC83",
                         !.tempc = TRUE, !.svcfg = TRUE, !.sync_hz = 100],
     [DefaultArgs EXCEPT !.can_id = 2, !.can_id_new = 2, !.node_num = 2,
                         !.time_per_nsamples = 1, !.max_sample = 2],
     [DefaultArgs EXCEPT !.max_sample = 0]}

ArgsSet == Variants \cup {[DefaultArgs EXCEPT !.noscale = n, !.max_sample = k] :
                             n \in BOOLEAN, k \in 1..MaxSample}

\* ------------------------------------------------------------------------
\* The session: state
\* ------------------------------------------------------------------------
VARIABLES
    args,           \* the parsed command line
    pc,             \* the statement of main() to be executed next
    waiting,        \* inside the "for msg in bus" loop of sdo_read / sdo_write
    msg,            \* the frame most recently taken from the bus iterator
    skipped,        \* frames discarded by the current SDO wait
    trace,          \* the calls made on the bus object, in order
    busOpen,        \* can.Bus() has returned and bus.shutdown() has not been called
    tasks,          \* the periodic tasks running on the bus
    model,          \* the product code assembled by get_model
    scl,            \* the globals GYRO_SF, ACCL_SF, TEMPC_SF, TEMPC_25C
    layout,         \* the globals STRUCT_TPDO1..4
    rd,             \* the locals rd1..rd4
    tpdo_flg,       \* the target mask
    tpdo_captured,  \* the completion mask
    index,          \* the sample index
    bound,          \* the locals of main() assigned only inside the loop that are bound
    hb1_num,        \* heartbeat counter
    hb_captured,
    samples,        \* the rows handed to print_row / print_row_acc, in order
    err,            \* the exception that ended the session, if any
    interrupted,    \* a KeyboardInterrupt has been caught
    rcall,          \* the resolver function called last, outside a session
    rcode,          \* its argument
    rexc,           \* the exception it raised
    cob_tab,        \* the global cob_id, as left by set_cobid
    hb_id,          \* the global hb_id, as left by set_hb_id
    call,           \* the arguments of an SDO call made outside a session
    ret,            \* the fields it unpacked from the response
    slots,          \* the payload last unpacked into the locals of TPDO1..4
    recent          \* history: the last frame of each TPDO, and whether it
                    \* arrived after the previous Sample

vars == <<args, pc, waiting, msg, skipped, trace, busOpen, tasks, model, scl, layout, rd,
          tpdo_flg, tpdo_captured, index, bound, hb1_num, hb_captured, samples, err,
          interrupted, rcall, rcode, rexc, cob_tab, hb_id, call, ret, slots, recent>>

\* cob_id after set_cobid(args.can_id), hb_id after set_hb_id(args.node_num)
COB == set_cobid(cob_id, args.can_id)
HBID == set_hb_id(args.node_num)

Zero4 == <<0, 0, 0, 0>>
NoMsg == [id |-> -1, data |-> <<>>]
NoCall == [kind |-> "none", byte |-> 0, index |-> 0, sub |-> 0, dat |-> 0]
NoRet == [rcmd |-> -1, rindex |-> -1, rsubindex |-> -1, rdat |-> <<>>]
Ev(op, id, data) == [op |-> op, id |-> id, data |-> data]

\* ------------------------------------------------------------------------
\* The session: the statements of main() between two blocking points
\* ------------------------------------------------------------------------
\* A sequence that applies the parameters before it reads the TPDO objects
ProgApplyEarly == <<"open", "preop", "time", "rd1008", "rd1009", "rd100a",
                    "sn_on", "sn74", "sn76", "sn78", "sn7a", "sn_off",
                    "canid", "brate", "scl", "mode", "rate", "filter",
                    "temp_rd", "temp_wr", "apply", "en1", "en2", "en3", "en4",
                    "save", "start", "sync", "stream">>

\* A sequence that starts the device before it configures it
ProgStartFirst == <<"open", "preop", "time", "start", "rd1008", "rd1009", "rd100a",
                    "sn_on", "sn74", "sn76", "sn78", "sn7a", "sn_off",
                    "canid", "brate", "scl", "mode", "rate", "filter",
                    "temp_rd", "temp_wr", "en1", "en2", "en3", "en4",
                    "apply", "save", "sync", "stream">>

Prog == <<"open", "preop", "time", "rd1008", "rd1009", "rd100a",
          "sn_on", "sn74", "sn76", "sn78", "sn7a", "sn_off",
          "canid", "brate", "scl", "mode", "rate", "filter",
          "temp_rd", "temp_wr", "en1", "en2", "en3", "en4",
          "apply", "save", "start", "sync", "stream">>

\* The statements that are one SDO transaction
SdoPcs == {"rd1008", "rd1009", "rd100a", "sn_on", "sn74", "sn76", "sn78", "sn7a", "sn_off",
           "canid", "brate", "mode", "rate", "filter", "temp_rd", "temp_wr",
           "en1", "en2", "en3", "en4", "apply", "save"}

\* The statements inside the try block
TryPcs == {Prog[i] : i \in 1..Len(Prog)}

PcIndex(l) == CHOOSE i \in 1..Len(Prog) : Prog[i] = l

\* The conditions that guard the optional statements
Active(l) == CASE l = "canid" -> args.can_id # args.can_id_new
               [] l = "brate" -> args.bitrate # args.bitrate_new
               [] l = "filter" -> args.filter # "None"
               [] l \in {"temp_rd", "temp_wr"} -> args.tempc
               [] l = "save" -> args.svcfg
               [] l = "sync" -> args.sync_hz # 0
               [] OTHER -> TRUE

\* The next statement executed after l
NextPc(l) == Prog[CHOOSE j \in (PcIndex(l) + 1)..Len(Prog) :
                     /\ Active(Prog[j])
                     /\ \A k \in (PcIndex(l) + 1)..(j - 1) : ~Active(Prog[k])]

\* The tables indexed by filter_set and ev_mode
FilterTable(m) == IF IsAcc(m) THEN FILTER_SEL_ACC
                  ELSE IF InStr(Slice(m, 7), "G552PC7") THEN FILTER_SEL2
                  ELSE FILTER_SEL

RateTable(m) == IF InStr(Slice(m, 7), "A552AC1") THEN DRATE_SEL2 ELSE DRATE_SEL

\* str(int(intvl)) for a rate given in 1/1000 Hz
RateKey(drate) == str(drate \div 1000)

\* The dictionary lookup made before the request of statement l raises KeyError
KeyErr(l) == CASE l = "brate" -> str(args.bitrate_new) \notin DOMAIN BRATE_SEL
               [] l = "rate" -> args.sync_hz = 0 /\ RateKey(args.drate) \notin DOMAIN RateTable(model)
               [] l = "filter" -> args.filter \notin DOMAIN FilterTable(model)
               [] OTHER -> FALSE

RdReq(byte, idx, subindex) == [kind |-> "read", byte |-> byte, index |-> idx, sub |-> subindex, dat |-> 0]
WrReq(byte, idx, subindex, dat) == [kind |-> "write", byte |-> byte, index |-> idx, sub |-> subindex, dat |-> dat]

\* A sequencer that takes the temperature object of the other family
TempIdxSwapped == IF IsAcc(model) THEN 6146 ELSE 6147

\* The index of the temperature TPDO object: 0x1803 for 'A' products, else 0x1802
TempIdx == IF IsAcc(model) THEN 6147 ELSE 6146
TempRd == IF IsAcc(model) THEN 4 ELSE 3

\* The SDO call made by statement l
Req(l) ==
    CASE l = "rd1008" -> RdReq(4, 4104, 0)
      [] l = "rd1009" -> RdReq(4, 4105, 0)
      [] l = "rd100a" -> RdReq(4, 4106, 0)
      [] l = "sn_on" -> WrReq(1, 12288, 126, 1)
      [] l = "sn74" -> RdReq(2, 12288, 116)
      [] l = "sn76" -> RdReq(2, 12288, 118)
      [] l = "sn78" -> RdReq(2, 12288, 120)
      [] l = "sn7a" -> RdReq(2, 12288, 122)
      [] l = "sn_off" -> WrReq(1, 12288, 126, 0)
      [] l = "canid" -> WrReq(1, 8192, 1, args.can_id_new)
      [] l = "brate" -> WrReq(1, 8192, 2, BRATE_SEL[str(args.bitrate_new)])
      [] l = "mode" -> WrReq(1, 6144, 2, IF args.sync_hz # 0 THEN 1 ELSE 254)
      [] l = "rate" -> IF args.sync_hz # 0 THEN WrReq(4, 8193, 0, 1)
                       ELSE IF InStr(Slice(model, 7), "A552AC1")
                            THEN WrReq(4, 8193, 0, DRATE_SEL2[RateKey(args.drate)])
                            ELSE WrReq(1, 8193, 0, DRATE_SEL[RateKey(args.drate)])
      [] l = "filter" -> WrReq(1, 24993, 1, FilterTable(model)[args.filter])
      [] l = "temp_rd" -> RdReq(4, TempIdx, 1)
      [] l = "temp_wr" -> WrReq(4, TempIdx, 1, ClearBit31(rd[TempRd]))
      [] l = "en1" -> RdReq(4, 6144, 1)
      [] l = "en2" -> RdReq(4, 6145, 1)
      [] l = "en3" -> RdReq(4, 6146, 1)
      [] l = "en4" -> RdReq(4, 6147, 1)
      [] l = "apply" -> WrReq(1, 8197, 0, 1)
      [] l = "save" -> WrReq(4, 4112, 1, 1702257011)

\* The payload of the request frame
ReqData(r) == IF r.kind = "read" THEN sdo_read_data(r.byte, r.index, r.sub)
              ELSE sdo_write_data(r.byte, r.index, r.sub, r.dat)

\* ------------------------------------------------------------------------
\* The environment: frames the bus can deliver
\* ------------------------------------------------------------------------
\* The values of a TPDO communication object: COB-ID valid (bit 31 clear) or not
TpdoOn == <<129, 1, 0, 0>>
TpdoOff == <<129, 1, 0, 128>>

\* The product codes a device may report (objects 0x1008 and 0x1009)
ProductCodes == {"A552AC10", "G570PR20", "ZZZZZZZ0"}

\* The four-byte values the device may return for the SDO call of statement l
DevData(l) == CASE l = "rd1008" -> {Str4(SubSeq(c, 1, 4)) : c \in ProductCodes}
                [] l = "rd1009" -> {Str4(SubSeq(c, 5, 8)) : c \in {d \in ProductCodes : SubSeq(d, 1, 4) = model}}
                [] l \in {"temp_rd", "en1", "en2", "en3", "en4"} -> {TpdoOn, TpdoOff}
                [] OTHER -> {Zero4}

\* An index no statement of main() requests
OtherIndex == 4660

RsdoFrame(cmd, idx, subindex, v) == [id |-> COB.RSDO, data |-> <<cmd>> \o LE16(idx) \o <<subindex>> \o v]

\* Frames delivered while statement l waits for its SDO response: a response
\* echoing the request, a response echoing another index, a short RSDO
\* frame, and a heartbeat
ConfigFrames(l) ==
    {RsdoFrame(IF Req(l).kind = "read" THEN 67 ELSE 96, i, Req(l).sub, v) :
         i \in {Req(l).index, OtherIndex}, v \in DevData(l)}
    \cup {[id |-> COB.RSDO, data |-> <<128, 0, 0>>]}
    \cup {[id |-> HBID[1], data |-> <<127>>]}

\* Frames delivered during streaming: TPDO1..4 of the size of the layout in
\* use, the heartbeat of node 1, and two frames on other identifiers
StreamFrames ==
    {[id |-> COB.TPDO1, data |-> Zeros(calcsize(layout.STRUCT_TPDO1))],
     [id |-> COB.TPDO2, data |-> Zeros(calcsize(layout.STRUCT_TPDO2))],
     [id |-> COB.TPDO3, data |-> Zeros(calcsize(layout.STRUCT_TPDO3))],
     [id |-> COB.TPDO4, data |-> Zeros(calcsize(layout.STRUCT_TPDO4))],
     [id |-> HBID[1], data |-> <<5>>],
     [id |-> 1794, data |-> <<5>>]}

\* ------------------------------------------------------------------------
\* Initial states
\* ------------------------------------------------------------------------
\* The locals of the loop before any TPDO frame was unpacked into them
NoSlots == [k \in 1..4 |-> <<>>]

\* No frame of any TPDO has arrived
NoRecent == [k \in 1..4 |-> [data |-> <<>>, cycle |-> FALSE]]

InitCommon ==
    /\ waiting = FALSE
    /\ msg = NoMsg
    /\ skipped = 0
    /\ trace = <<>>
    /\ busOpen = FALSE
    /\ tasks = {}
    /\ model = ""
    /\ scl = InitScales
    /\ layout = InitLayout
    /\ rd = [i \in 1..4 |-> Zero4]
    /\ tpdo_flg = 0
    /\ tpdo_captured = 0
    /\ index = 0
    /\ bound = {}
    /\ hb1_num = 0
    /\ hb_captured = 0
    /\ samples = <<>>
    /\ slots = NoSlots
    /\ recent = NoRecent
    /\ err = "none"
    /\ interrupted = FALSE
    /\ rcall = "none"
    /\ rcode = ""
    /\ rexc = "none"
    /\ ret = NoRet

\* main(args) is entered: set_cobid, set_hb_id and can_ports have run
Init ==
    /\ args \in ArgsSet
    /\ pc = "open"
    /\ InitCommon
    /\ cob_tab = COB
    /\ hb_id = HBID
    /\ call = NoCall

\* ------------------------------------------------------------------------
\* Actions of main()
\* ------------------------------------------------------------------------
session == <<tpdo_captured, index, bound, hb1_num, hb_captured, samples, slots, recent>>
profile == <<model, scl, layout, rd, tpdo_flg>>
harness == <<rcall, rcode, rexc, cob_tab, hb_id, call, ret>>

\* bus = can.Bus(...); bus.set_filters(bus_filters)
Open ==
    /\ pc = "open"
    /\ busOpen' = TRUE
    /\ trace' = Append(trace, Ev("open", -1, <<>>))
    /\ pc' = NextPc(pc)
    /\ UNCHANGED <<args, waiting, msg, skipped, tasks, err, interrupted>>
    /\ UNCHANGED <<session, profile, harness>>

\* nmt_send(bus, cmd, node)
nmt_send(cmd, node) == Ev("send", COB.NMT, <<cmd, node>>)

\* nmt_send(bus, nmt["PRE-OP"], args.can_id) at the head of the sequence
NmtPreOp ==
    /\ pc = "preop"
    /\ trace' = Append(trace, nmt_send(nmt.PRE_OP, args.can_id))
    /\ pc' = NextPc(pc)
    /\ UNCHANGED <<args, waiting, msg, skipped, busOpen, tasks, err, interrupted>>
    /\ UNCHANGED <<session, profile, harness>>

\* time_send(bus)
TimeSend ==
    /\ pc = "time"
    /\ trace' = Append(trace, Ev("send", COB.TIME, time_of_day(HostClock)))
    /\ pc' = NextPc(pc)
    /\ UNCHANGED <<args, waiting, msg, skipped, busOpen, tasks, err, interrupted>>
    /\ UNCHANGED <<session, profile, harness>>

\* The first half of sdo_read / sdo_write: the table lookup of the caller,
\* struct.pack and bus_.send
SdoSend ==
    /\ pc \in SdoPcs
    /\ ~waiting
    /\ IF KeyErr(pc)
       THEN /\ pc' = "crash"
            /\ err' = "KeyError"
            /\ UNCHANGED <<trace, waiting>>
       ELSE /\ trace' = Append(trace, Ev("send", COB.TSDO, ReqData(Req(pc))))
            /\ waiting' = TRUE
            /\ UNCHANGED <<pc, err>>
    /\ skipped' = 0
    /\ UNCHANGED <<args, msg, busOpen, tasks, interrupted>>
    /\ UNCHANGED <<session, profile, harness>>

\* ''.join(chr(i) for i in ...) of the four bytes of a value
Chars4(v) == Chr(v[1]) \o Chr(v[2]) \o Chr(v[3]) \o Chr(v[4])

\* A mask that sets the bit of TPDO4 in the place of the bit of TPDO3
TargetMaskBit4(r) ==
    LET f1 == IF ~Bit31(r[1]) THEN BitOr(0, 1) ELSE 0
        f2 == IF ~Bit31(r[2]) THEN BitOr(f1, 2) ELSE f1
        f3 == IF ~Bit31(r[3]) THEN BitOr(f2, 4) ELSE f2
    IN  IF ~Bit31(r[4]) THEN BitOr(f3, 4) ELSE f3

\* The target mask computed from rd1..rd4
TargetMask(r) ==
    LET f1 == IF ~Bit31(r[1]) THEN BitOr(0, 1) ELSE 0
        f2 == IF ~Bit31(r[2]) THEN BitOr(f1, 2) ELSE f1
        f3 == IF ~Bit31(r[3]) THEN BitOr(f2, 4) ELSE f2
    IN  IF ~Bit31(r[4]) THEN BitOr(f3, 8) ELSE f3

\* What the caller does with the value rdat returned for statement l
Returned(l, rdat) ==
    LET r2 == CASE l = "temp_rd" -> [rd EXCEPT ![TempRd] = LE32(ClearBit31(rdat))]
                [] l = "en1" -> [rd EXCEPT ![1] = rdat]
                [] l = "en2" -> [rd EXCEPT ![2] = rdat]
                [] l = "en3" -> [rd EXCEPT ![3] = rdat]
                [] l = "en4" -> [rd EXCEPT ![4] = rdat]
                [] OTHER -> rd
    IN  /\ model' = CASE l = "rd1008" -> Chars4(rdat)
                      [] l = "rd1009" -> model \o Chars4(rdat)
                      [] OTHER -> model
        /\ rd' = r2
        /\ tpdo_flg' = IF l = "en4" THEN TargetMask(r2) ELSE tpdo_flg

\* A wait that also compares the echoed index with the requested one
MatchesIndex(f, r) == f.id = COB.RSDO /\ U16At(f.data, 2) = r.index

\* The test that ends the wait of sdo_read / sdo_write for the call r:
\* "if (msg.arbitration_id) == cob_id["RSDO"]"
Matches(f, r) == f.id = COB.RSDO

\* The second half of sdo_read / sdo_write: one iteration of "for msg in bus"
SdoRecv(f) ==
    /\ pc \in SdoPcs
    /\ waiting
    /\ msg' = f
    /\ IF ~Matches(f, Req(pc))
       THEN /\ skipped < MaxSkip
            /\ skipped' = skipped + 1
            /\ UNCHANGED <<pc, waiting, err, profile>>
       ELSE IF Len(f.data) # calcsize("<BHBI")
       THEN /\ pc' = "crash"
            /\ err' = "struct.error"
            /\ UNCHANGED <<waiting, skipped, profile>>
       ELSE /\ Returned(pc, U32At(f.data, 5))
            /\ pc' = NextPc(pc)
            /\ waiting' = FALSE
            /\ skipped' = 0
            /\ UNCHANGED <<scl, layout, err>>
    /\ UNCHANGED <<args, trace, busOpen, tasks, interrupted>>
    /\ UNCHANGED <<session, harness>>

\* The scale factors, the struct formats and the initial values of the locals
ResolveProfile ==
    /\ pc = "scl"
    /\ LET sf == IF args.noscale THEN Raise("none") ELSE set_SCL(model)
       IN  IF sf["exc"] # "none"
           THEN /\ pc' = "crash"
                /\ err' = sf["exc"]
                /\ UNCHANGED <<scl, layout>>
           ELSE /\ scl' = IF args.noscale
                          THEN [scl EXCEPT !.GYRO_SF = Dec(1, 0), !.ACCL_SF = Dec(1, 0),
                                           !.TEMPC_SF = Dec(1, 0)]
                          ELSE ScaleGlobals(sf)
                /\ layout' = get_pdo_struct_fmt(model)
                /\ pc' = NextPc(pc)
                /\ UNCHANGED err
    /\ tpdo_flg' = 0
    /\ tpdo_captured' = 0
    /\ index' = 0
    /\ hb1_num' = 0
    /\ hb_captured' = 0
    /\ UNCHANGED <<args, waiting, msg, skipped, trace, busOpen, tasks, model, rd, bound,
                   samples, interrupted, harness, slots, recent>>

\* nmt_send(bus, nmt["START"], args.can_id)
NmtStart ==
    /\ pc = "start"
    /\ trace' = Append(trace, nmt_send(nmt.START, args.can_id))
    /\ pc' = NextPc(pc)
    /\ UNCHANGED <<args, waiting, msg, skipped, busOpen, tasks, err, interrupted>>
    /\ UNCHANGED <<session, profile, harness>>

\* sync_send(bus, f, args)
SyncStart ==
    /\ pc = "sync"
    /\ trace' = Append(trace, Ev("send_periodic", COB.SYNC, <<>>))
    /\ tasks' = tasks \cup {"SYNC"}
    /\ pc' = NextPc(pc)
    /\ UNCHANGED <<args, waiting, msg, skipped, busOpen, err, interrupted>>
    /\ UNCHANGED <<session, profile, harness>>

\* The SYNC frames the periodic task has put on the bus
SyncFrames == SelectSeq(trace, LAMBDA e : e.op = "periodic")

\* A periodic task that shares the completion mask with the main loop
SyncEmitShared ==
    /\ "SYNC" \in tasks
    /\ pc \in {"stream", "sd"}
    /\ Len(SyncFrames) < MaxSync
    /\ trace' = Append(trace, Ev("periodic", COB.SYNC, <<>>))
    /\ tpdo_captured' = 0
    /\ UNCHANGED <<args, pc, waiting, msg, skipped, busOpen, tasks, err, interrupted>>
    /\ UNCHANGED <<index, bound, hb1_num, hb_captured, samples, slots, recent>>
    /\ UNCHANGED <<profile, harness>>

\* The task created by bus_.send_periodic(sync_msg, 1 / args.sync_hz) sends
\* one SYNC frame; it runs beside the main loop while the process lives
SyncEmit ==
    /\ "SYNC" \in tasks
    /\ pc \in {"stream", "sd"}
    /\ Len(SyncFrames) < MaxSync
    /\ trace' = Append(trace, Ev("periodic", COB.SYNC, <<>>))
    /\ UNCHANGED <<args, pc, waiting, msg, skipped, busOpen, tasks, err, interrupted>>
    /\ UNCHANGED <<session, profile, harness>>

\* ------------------------------------------------------------------------
\* Streaming
\* ------------------------------------------------------------------------
\* The TPDO number whose identifier f carries, 0 if none
TpdoOf(f) == IF f.id = COB.TPDO1 THEN 1
             ELSE IF f.id = COB.TPDO2 THEN 2
             ELSE IF f.id = COB.TPDO3 THEN 3
             ELSE IF f.id = COB.TPDO4 THEN 4
             ELSE 0

TpdoBit(k) == CASE k = 1 -> 1 [] k = 2 -> 2 [] k = 3 -> 4 [] k = 4 -> 8

TpdoFmt(k) == CASE k = 1 -> layout.STRUCT_TPDO1
                [] k = 2 -> layout.STRUCT_TPDO2
                [] k = 3 -> layout.STRUCT_TPDO3
                [] k = 4 -> layout.STRUCT_TPDO4

\* The locals first assigned by the branch of TPDO k
Binds(k) == IF k = 1 THEN {"can_timestamp"}
            ELSE IF k = 3 /\ ~IsAcc(model) THEN {"angx"}
            ELSE {}

\* A loop whose locals are all assigned before the first frame
RowReadsAssigned == {}

\* The locals of the loop read when the arguments of print_row_acc /
\* print_row are evaluated
RowReads == IF IsAcc(model) THEN {"can_timestamp"} ELSE {"can_timestamp", "angx"}

\* An unpack that keeps the values of the first frame of a cycle
UnpackedFirst(k, f) == IF (tpdo_captured \div TpdoBit(k)) % 2 = 1 THEN slots
                       ELSE [slots EXCEPT ![k] = f.data]

\* "... = struct.unpack(STRUCT_TPDOk, msg.data)": the locals of TPDO k take
\* the fields of the frame f
Unpacked(k, f) == [slots EXCEPT ![k] = f.data]

\* One iteration of "for msg in bus" in main().  Only hb_id["HB1"] is
\* tested for a heartbeat.  The body of "if args.time_per_nsamples: if index
\* % args.time_per_nsamples == 0:" is "pass": nothing is sent.
StreamFrame(f) ==
    /\ pc = "stream"
    /\ f.id = HBID[1] => hb1_num < MaxHb
    /\ index < args.max_sample + MaxOverrun
    /\ msg' = f
    /\ LET isHb == f.id = HBID[1]
           k == IF isHb THEN 0 ELSE TpdoOf(f)
           badLen == \/ isHb /\ Len(f.data) # calcsize("<B")
                     \/ k > 0 /\ Len(f.data) # calcsize(TpdoFmt(k))
           cap == IF k > 0 THEN BitOr(tpdo_captured, TpdoBit(k)) ELSE tpdo_captured
           bnd == bound \cup (IF k > 0 THEN Binds(k) ELSE {})
           hbc == IF isHb THEN BitOr(hb_captured, 1) ELSE hb_captured
           complete == cap = tpdo_flg
           sl == IF k > 0 THEN Unpacked(k, f) ELSE slots
           rc == IF k > 0 THEN [recent EXCEPT ![k] = [data |-> f.data, cycle |-> TRUE]]
                 ELSE recent
       IN  IF badLen
           THEN /\ pc' = "crash"
                /\ err' = "struct.error"
                /\ bound' = IF k = 1 THEN bnd ELSE bound
                /\ recent' = rc
                /\ UNCHANGED <<tpdo_captured, index, hb1_num, hb_captured, samples, slots>>
           ELSE /\ hb1_num' = IF isHb THEN hb1_num + 1 ELSE hb1_num
                /\ bound' = bnd
                /\ slots' = sl
                /\ IF complete /\ ~(RowReads \subseteq bnd)
                   THEN /\ pc' = "crash"
                        /\ err' = "UnboundLocalError"
                        /\ tpdo_captured' = cap
                        /\ hb_captured' = hbc
                        /\ recent' = rc
                        /\ UNCHANGED <<index, samples>>
                   ELSE /\ samples' = IF complete
                                      THEN Append(samples, [index |-> index, fields |-> sl])
                                      ELSE samples
                        /\ recent' = IF complete
                                     THEN [x \in 1..4 |-> [rc[x] EXCEPT !.cycle = FALSE]]
                                     ELSE rc
                        /\ tpdo_captured' = IF complete THEN 0 ELSE cap
                        /\ index' = IF complete THEN index + 1 ELSE index
                        /\ pc' = IF index' = args.max_sample THEN "sd" ELSE pc
                        /\ hb_captured' = IF index' # args.max_sample /\ hbc = 1 THEN 0 ELSE hbc
                        /\ UNCHANGED err
    /\ UNCHANGED <<args, waiting, skipped, trace, busOpen, tasks, interrupted>>
    /\ UNCHANGED <<profile, harness>>

\* ------------------------------------------------------------------------
\* Shutdown and the exception handlers of main()
\* ------------------------------------------------------------------------
\* A shutdown that closes the transport before it stops the periodic tasks
ShutdownSeqCloseFirst == <<[op |-> "send", id |-> COB.NMT, data |-> <<nmt.PRE_OP, args.can_id>>],
                           Ev("shutdown", -1, <<>>),
                           Ev("stop_all_periodic_tasks", -1, <<>>)>>

\* The statements after the try statement: nmt_send(bus, nmt["PRE-OP"],
\* args.can_id), bus.stop_all_periodic_tasks(), bus.shutdown()
ShutdownSeq == <<nmt_send(nmt.PRE_OP, args.can_id),
                 Ev("stop_all_periodic_tasks", -1, <<>>),
                 Ev("shutdown", -1, <<>>)>>

ShutdownEffect ==
    /\ trace' = trace \o ShutdownSeq
    /\ tasks' = {}
    /\ busOpen' = FALSE
    /\ pc' = "done"

\* The loop was left by break
Shutdown ==
    /\ pc = "sd"
    /\ ShutdownEffect
    /\ UNCHANGED <<args, waiting, msg, skipped, err, interrupted>>
    /\ UNCHANGED <<session, profile, harness>>

\* A bus call inside the try block raises can.CanError (or PcanError): the
\* handler prints and calls sys.exit()
TransportFailure ==
    /\ pc \in TryPcs
    /\ pc' = "exit"
    /\ err' = "CanError"
    /\ UNCHANGED <<args, waiting, msg, skipped, trace, busOpen, tasks, interrupted>>
    /\ UNCHANGED <<session, profile, harness>>

\* KeyboardInterrupt inside the try block: the handler prints and control
\* falls through to the statements after the try statement, which run to
\* the end.  Before can.Bus() has returned the local bus is unbound there.
Interrupt ==
    /\ pc \in TryPcs
    /\ ~interrupted
    /\ interrupted' = TRUE
    /\ waiting' = FALSE
    /\ IF pc = "open"
       THEN /\ pc' = "crash"
            /\ err' = "UnboundLocalError"
            /\ UNCHANGED <<trace, busOpen, tasks>>
       ELSE /\ ShutdownEffect
            /\ UNCHANGED err
    /\ UNCHANGED <<args, msg, skipped>>
    /\ UNCHANGED <<session, profile, harness>>

Next ==
    \/ Open
    \/ NmtPreOp
    \/ TimeSend
    \/ SdoSend
    \/ (pc \in SdoPcs /\ waiting /\ \E f \in ConfigFrames(pc) : SdoRecv(f))
    \/ ResolveProfile
    \/ NmtStart
    \/ SyncStart
    \/ SyncEmit
    \/ \E f \in StreamFrames : StreamFrame(f)
    \/ Shutdown
    \/ TransportFailure
    \/ Interrupt

Spec == Init /\ [][Next]_vars

\* ------------------------------------------------------------------------
\* The profile resolver called on its own
\* ------------------------------------------------------------------------
\* Every name of the tables of setModel and set_SCL followed by three more
\* characters, and a name of no table
CodeBases == {"G320000", "G354000", "G570000", "MIU000",
              "G364PDC0000", "G364PDCA000", "G365PDC000", "G370PDC000",
              "G365PDF000", "G370PDF000", "G552PR7000", "G552PR1000", "G570PR1000",
              "G552PC1000", "G552PC7000", "G570PR2000", "G370PDG000",
              "G550PC2000", "G55T2A0000", "G55P200000",
              "A552AC1000", "A55A200000", "ZZZZZZZZZZZ"}

\* The product codes passed to the resolver: every prefix of a base
Codes == {Slice(b, n) : b \in CodeBases, n \in 0..MaxCodeLen}

InitResolve ==
    /\ args = DefaultArgs
    /\ pc = "resolver"
    /\ InitCommon
    /\ cob_tab = cob_id
    /\ hb_id = <<>>
    /\ call = NoCall

\* set_SCL(c)
CallSetSCL(c) ==
    /\ pc = "resolver"
    /\ rcall' = "set_SCL"
    /\ rcode' = c
    /\ LET sf == set_SCL(c)
       IN  /\ rexc' = sf["exc"]
           /\ scl' = IF sf["exc"] = "none" THEN ScaleGlobals(sf) ELSE scl
    /\ UNCHANGED <<args, pc, waiting, msg, skipped, trace, busOpen, tasks, err, interrupted>>
    /\ UNCHANGED <<session, model, layout, rd, tpdo_flg, cob_tab, hb_id, call, ret>>

\* get_pdo_struct_fmt(c)
CallGetPdoStructFmt(c) ==
    /\ pc = "resolver"
    /\ rcall' = "get_pdo_struct_fmt"
    /\ rcode' = c
    /\ rexc' = "none"
    /\ layout' = get_pdo_struct_fmt(c)
    /\ UNCHANGED <<args, pc, waiting, msg, skipped, trace, busOpen, tasks, err, interrupted>>
    /\ UNCHANGED <<session, model, scl, rd, tpdo_flg, cob_tab, hb_id, call, ret>>

NextResolve ==
    \/ \E c \in Codes : CallSetSCL(c)
    \/ \E c \in Codes : CallGetPdoStructFmt(c)

SpecResolve == InitResolve /\ [][NextResolve]_vars

\* ------------------------------------------------------------------------
\* The session with a transport that does not fail and a device that answers
\* every request and keeps sending the TPDOs of the target mask
\* ------------------------------------------------------------------------
LiveArgs == {DefaultArgs,
             [DefaultArgs EXCEPT !.sync_hz = 100],
             [DefaultArgs EXCEPT !.tempc = TRUE, !.svcfg = TRUE, !.max_sample = 2]}

InitLive ==
    /\ args \in LiveArgs
    /\ pc = "open"
    /\ InitCommon
    /\ cob_tab = COB
    /\ hb_id = HBID
    /\ call = NoCall

\* The RSDO frame that answers the request of statement l
Answers(l) ==
    {RsdoFrame(IF Req(l).kind = "read" THEN 67 ELSE 96, Req(l).index, Req(l).sub, v) :
         v \in DevData(l)}

\* The device answers the pending SDO request
Answer == pc \in SdoPcs /\ waiting /\ \E f \in Answers(pc) : SdoRecv(f)

\* The device sends TPDO k, which is in the target mask
Deliver(k) ==
    /\ (tpdo_flg \div TpdoBit(k)) % 2 = 1
    /\ \E f \in StreamFrames : TpdoOf(f) = k /\ StreamFrame(f)

\* The statements of main() that wait for no frame
Statement ==
    \/ Open
    \/ NmtPreOp
    \/ TimeSend
    \/ SdoSend
    \/ ResolveProfile
    \/ NmtStart
    \/ SyncStart
    \/ Shutdown

NextLive ==
    \/ Statement
    \/ Answer
    \/ SyncEmit
    \/ \E k \in 1..4 : Deliver(k)

\* main() executes its next statement, the device answers, and the device
\* sends each TPDO of the target mask again and again
Fairness ==
    /\ WF_vars(Statement)
    /\ WF_vars(Answer)
    /\ \A k \in 1..4 : WF_vars(Deliver(k))

SpecLive == InitLive /\ [][NextLive]_vars /\ Fairness

\* ------------------------------------------------------------------------
\* The streaming loop fed with frames that differ in their payload
\* ------------------------------------------------------------------------
\* The values of 0x1800..0x1803 sub 1 that give the target mask m
MaskReads(m) == [i \in 1..4 |-> IF (m \div TpdoBit(i)) % 2 = 1 THEN TpdoOn ELSE TpdoOff]

\* main() is about to enter "for msg in bus"
InitFresh ==
    /\ args = [DefaultArgs EXCEPT !.max_sample = 2]
    /\ pc = "stream"
    /\ waiting = FALSE
    /\ msg = NoMsg
    /\ skipped = 0
    /\ trace = <<>>
    /\ busOpen = TRUE
    /\ tasks = {}
    /\ model \in {"A552AC10", "G570PR20"}
    /\ scl = ScaleGlobals(set_SCL(model))
    /\ layout = get_pdo_struct_fmt(model)
    /\ tpdo_flg \in 0..15
    /\ rd = MaskReads(tpdo_flg)
    /\ tpdo_captured = 0
    /\ index = 0
    /\ bound = {}
    /\ hb1_num = 0
    /\ hb_captured = 0
    /\ samples = <<>>
    /\ slots = NoSlots
    /\ recent = NoRecent
    /\ err = "none"
    /\ interrupted = FALSE
    /\ rcall = "none"
    /\ rcode = ""
    /\ rexc = "none"
    /\ ret = NoRet
    /\ cob_tab = COB
    /\ hb_id = HBID
    /\ call = NoCall

\* A frame of TPDO k in the layout in use whose first byte is v
TpdoFrame(k, v) ==
    [id |-> CASE k = 1 -> COB.TPDO1 [] k = 2 -> COB.TPDO2 [] k = 3 -> COB.TPDO3 [] k = 4 -> COB.TPDO4,
     data |-> <<v>> \o Zeros(calcsize(TpdoFmt(k)) - 1)]

\* Two different frames of each TPDO, and a frame on another identifier
FreshFrames ==
    {TpdoFrame(k, v) : k \in 1..4, v \in {0, 1}} \cup {[id |-> 1794, data |-> <<5>>]}

NextFresh ==
    \/ \E f \in FreshFrames : StreamFrame(f)
    \/ Shutdown

SpecFresh == InitFresh /\ [][NextFresh]_vars

\* ------------------------------------------------------------------------
\* ev_mode called for every rate of the tables
\* ------------------------------------------------------------------------
\* int(s) for a string of digits
RECURSIVE int(_)
int(s) == IF s = "" THEN 0
          ELSE int(SubSeq(s, 1, Len(s) - 1)) * 10
               + (CHOOSE d \in 0..9 : SubSeq(Digits, d + 1, d + 1) = SubSeq(s, Len(s), Len(s)))

\* float(s), in 1/1000, for a decimal string with at most three decimals:
\* the value argparse gives args.drate for the command line word s
float(s) ==
    LET dots == {i \in 1..Len(s) : SubSeq(s, i, i) = "."}
    IN  IF dots = {} THEN int(s) * 1000
        ELSE LET i == CHOOSE j \in dots : TRUE
                 frac == SubSeq(s, i + 1, Len(s))
             IN  int(SubSeq(s, 1, i - 1)) * 1000 + int(frac) * 10 ^ (3 - Len(frac))

\* The rates requested: every key of the two tables, and rates of no table
Rates == {float(k) : k \in DOMAIN DRATE_SEL \cup DOMAIN DRATE_SEL2} \cup {float("7"), float("62")}

\* main() is about to call ev_mode(bus, args.drate, model)
InitRate ==
    /\ args \in {[DefaultArgs EXCEPT !.drate = r] : r \in Rates}
    /\ pc = "mode"
    /\ waiting = FALSE
    /\ msg = NoMsg
    /\ skipped = 0
    /\ trace = <<>>
    /\ busOpen = TRUE
    /\ tasks = {}
    /\ model \in {"A552AC10", "G570PR20"}
    /\ scl = ScaleGlobals(set_SCL(model))
    /\ layout = get_pdo_struct_fmt(model)
    /\ rd = [i \in 1..4 |-> Zero4]
    /\ tpdo_flg = 0
    /\ tpdo_captured = 0
    /\ index = 0
    /\ bound = {}
    /\ hb1_num = 0
    /\ hb_captured = 0
    /\ samples = <<>>
    /\ slots = NoSlots
    /\ recent = NoRecent
    /\ err = "none"
    /\ interrupted = FALSE
    /\ rcall = "none"
    /\ rcode = ""
    /\ rexc = "none"
    /\ ret = NoRet
    /\ cob_tab = COB
    /\ hb_id = HBID
    /\ call = NoCall

\* The two sdo_write calls of ev_mode
NextRate ==
    /\ pc \in {"mode", "rate"}
    /\ \/ SdoSend
       \/ (waiting /\ \E f \in ConfigFrames(pc) : SdoRecv(f))

SpecRate == InitRate /\ [][NextRate]_vars

\* ------------------------------------------------------------------------
\* The profile of one product code resolved twice
\* ------------------------------------------------------------------------
\* The codes resolved in between: one of each outcome of the resolver
OtherCodes == {"G320", "A552AC10", "G364PDC0", "G570PR20", "MIU000", "ZZZZZZZ0"}

NoProfile == [exc |-> "none", scl |-> <<>>, layout |-> <<>>, between |-> 0]

InitTwice ==
    /\ args = DefaultArgs
    /\ call \in Codes
    /\ pc = "first"
    /\ InitCommon
    /\ cob_tab = cob_id
    /\ hb_id = <<>>

\* set_SCL(c); get_pdo_struct_fmt(c), as main() calls them: an exception of
\* set_SCL leaves the globals as they are
Resolve(c) ==
    LET sf == set_SCL(c)
    IN  /\ rcall' = "resolve"
        /\ rcode' = c
        /\ rexc' = sf["exc"]
        /\ scl' = IF sf["exc"] = "none" THEN ScaleGlobals(sf) ELSE scl
        /\ layout' = IF sf["exc"] = "none" THEN get_pdo_struct_fmt(c) ELSE layout

\* The first resolution of the code, and its outcome
ResolveFirst ==
    /\ pc = "first"
    /\ Resolve(call)
    /\ ret' = [exc |-> rexc', scl |-> scl', layout |-> layout', between |-> 0]
    /\ pc' = "between"
    /\ UNCHANGED <<args, waiting, msg, skipped, trace, busOpen, tasks, err, interrupted>>
    /\ UNCHANGED <<session, model, rd, tpdo_flg, cob_tab, hb_id, call>>

\* A resolution of another code
ResolveOther(c) ==
    /\ pc = "between"
    /\ ret.between < MaxBetween
    /\ Resolve(c)
    /\ ret' = [ret EXCEPT !.between = @ + 1]
    /\ UNCHANGED <<args, pc, waiting, msg, skipped, trace, busOpen, tasks, err, interrupted>>
    /\ UNCHANGED <<session, model, rd, tpdo_flg, cob_tab, hb_id, call>>

\* A second resolution that does nothing when a profile is already loaded
ResolveSecondCached ==
    /\ pc = "between"
    /\ pc' = "second"
    /\ rcall' = "resolve"
    /\ rcode' = call
    /\ UNCHANGED <<args, waiting, msg, skipped, trace, busOpen, tasks, err, interrupted>>
    /\ UNCHANGED <<session, profile, rexc, cob_tab, hb_id, call, ret>>

\* The second resolution of the code
ResolveSecond ==
    /\ pc = "between"
    /\ Resolve(call)
    /\ pc' = "second"
    /\ UNCHANGED <<args, waiting, msg, skipped, trace, busOpen, tasks, err, interrupted>>
    /\ UNCHANGED <<session, model, rd, tpdo_flg, cob_tab, hb_id, call, ret>>

NextTwice ==
    \/ ResolveFirst
    \/ \E c \in OtherCodes : ResolveOther(c)
    \/ ResolveSecond

SpecTwice == InitTwice /\ [][NextTwice]_vars

\* ------------------------------------------------------------------------
\* The COB-ID derivation called on its own
\* ------------------------------------------------------------------------
\* The values argparse accepts for --can_id and --node_num (type=int, no
\* range check): the documented ranges and one value on either side
NodeIds == 0..(MaxNodeId + 1)
NodeNums == 0..(MaxNodeNum + 1)

InitDerive ==
    /\ args \in {[DefaultArgs EXCEPT !.can_id = n, !.node_num = k] :
                     n \in NodeIds, k \in NodeNums}
    /\ pc = "derive"
    /\ InitCommon
    /\ cob_tab = cob_id
    /\ hb_id = <<>>
    /\ call = NoCall

\* set_cobid(args.can_id)
CallSetCobid ==
    /\ pc = "derive"
    /\ rcall' = "set_cobid"
    /\ cob_tab' = set_cobid(cob_tab, args.can_id)
    /\ pc' = "derive_hb"
    /\ UNCHANGED <<args, waiting, msg, skipped, trace, busOpen, tasks, err, interrupted>>
    /\ UNCHANGED <<session, profile, rcode, rexc, hb_id, call, ret>>

\* set_hb_id(args.node_num)
CallSetHbId ==
    /\ pc = "derive_hb"
    /\ rcall' = "set_hb_id"
    /\ hb_id' = set_hb_id(args.node_num)
    /\ pc' = "derived"
    /\ UNCHANGED <<args, waiting, msg, skipped, trace, busOpen, tasks, err, interrupted>>
    /\ UNCHANGED <<session, profile, rcode, rexc, cob_tab, call, ret>>

NextDerive ==
    \/ CallSetCobid
    \/ CallSetHbId

SpecDerive == InitDerive /\ [][NextDerive]_vars

\* ------------------------------------------------------------------------
\* One SDO call made on its own
\* ------------------------------------------------------------------------
\* The indexes, sub-indexes and values of the calls: the ends of each range,
\* the values on either side of a byte boundary, and objects main() uses
SdoIndexes == {0, 1, 255, 256, 6144, 24993, 65535}
SdoSubs == {0, 1, 2, 126, 255}
SdoValues(byte) == IF byte = 1 THEN {0, 1, 254, 255}
                   ELSE IF byte = 2 THEN {0, 255, 256, 65535}
                   ELSE {0, 255, 256, 65535, 65536, 1702257011, 2147483647}

SdoCalls == {WrReq(b, i, u, v) : b \in {1}, i \in SdoIndexes, u \in SdoSubs, v \in SdoValues(1)}
            \cup {WrReq(b, i, u, v) : b \in {2}, i \in SdoIndexes, u \in SdoSubs, v \in SdoValues(2)}
            \cup {WrReq(b, i, u, v) : b \in {4}, i \in SdoIndexes, u \in SdoSubs, v \in SdoValues(4)}
            \cup {RdReq(b, i, u) : b \in {1, 2, 4}, i \in SdoIndexes, u \in SdoSubs}

InitSdo ==
    /\ args \in {[DefaultArgs EXCEPT !.can_id = n] : n \in {1, MaxNodeId}}
    /\ call \in SdoCalls
    /\ pc = "sdo"
    /\ InitCommon
    /\ cob_tab = COB
    /\ hb_id = HBID

\* The response frames a device may give to the request q: one that echoes
\* the bytes after the command byte, and one that carries a zero value
Responses(q) == {[id |-> COB.RSDO, data |-> <<c>> \o SubSeq(q, 2, 8)] : c \in {96, 67}}
                \cup {[id |-> COB.RSDO, data |-> <<96>> \o SubSeq(q, 2, 4) \o Zero4]}

\* sdo_read / sdo_write up to bus_.send(sdo_msg)
SdoCall ==
    /\ pc = "sdo"
    /\ trace' = Append(trace, Ev("send", COB.TSDO, ReqData(call)))
    /\ waiting' = TRUE
    /\ pc' = "sdo_wait"
    /\ UNCHANGED <<args, msg, skipped, busOpen, tasks, err, interrupted>>
    /\ UNCHANGED <<session, profile, harness>>

\* The iteration of "for msg in bus_" that takes the RSDO frame f:
\* rcmd, rindex, rsubindex, rdat = struct.unpack(STRCT, msg.data)
SdoReturn(f) ==
    /\ pc = "sdo_wait"
    /\ Matches(f, call)
    /\ msg' = f
    /\ ret' = [rcmd |-> f.data[1], rindex |-> U16At(f.data, 2),
               rsubindex |-> f.data[4], rdat |-> U32At(f.data, 5)]
    /\ waiting' = FALSE
    /\ pc' = "sdo_ret"
    /\ UNCHANGED <<args, skipped, trace, busOpen, tasks, err, interrupted>>
    /\ UNCHANGED <<session, profile, rcall, rcode, rexc, cob_tab, hb_id, call>>

NextSdo ==
    \/ SdoCall
    \/ (pc = "sdo_wait" /\ \E f \in Responses(trace[Len(trace)].data) : SdoReturn(f))

SpecSdo == InitSdo /\ [][NextSdo]_vars

\* ------------------------------------------------------------------------
\* One TIME message and the device time of one Sample
\* ------------------------------------------------------------------------
\* The host clock as time since 1984-01-01: the first and the last day of
\* the 16-bit field and the day after it, the ends of a day, and
\* microseconds on either side of a tick (62.5 us) and of a millisecond
Instants == [days : {0, 1, 14000, 65535, 65536},
             seconds : {0, 1, 3, 59, 86399},
             microseconds : {0, 1, 62, 63, 124, 125, 999, 1000, 10000, 10500,
                             499999, 999937, 999999}]

InitTime ==
    /\ args = DefaultArgs
    /\ call \in Instants
    /\ pc = "time_send"
    /\ waiting = FALSE
    /\ msg = NoMsg
    /\ skipped = 0
    /\ trace = <<>>
    /\ busOpen = FALSE
    /\ tasks = {}
    /\ model \in {"A552AC10", "G570PR20"}
    /\ scl = InitScales
    /\ layout = get_pdo_struct_fmt(model)
    /\ rd = [i \in 1..4 |-> Zero4]
    /\ tpdo_flg = 0
    /\ tpdo_captured = 0
    /\ index = 0
    /\ bound = {}
    /\ hb1_num = 0
    /\ hb_captured = 0
    /\ samples = <<>>
    /\ slots = NoSlots
    /\ recent = NoRecent
    /\ err = "none"
    /\ interrupted = FALSE
    /\ rcall = "none"
    /\ rcode = ""
    /\ rexc = "none"
    /\ ret = NoRet
    /\ cob_tab = COB
    /\ hb_id = HBID

\* time_send(bus_) at the instant call
CallTimeSend ==
    /\ pc = "time_send"
    /\ rcall' = "time_send"
    /\ rexc' = time_send_exc(call)
    /\ IF time_send_exc(call) # "none"
       THEN /\ pc' = "time_err"
            /\ UNCHANGED trace
       ELSE /\ trace' = Append(trace, Ev("send", COB.TIME, time_of_day(call)))
            /\ pc' = "time_sent"
    /\ UNCHANGED <<args, waiting, msg, skipped, busOpen, tasks, err, interrupted>>
    /\ UNCHANGED <<session, profile, rcode, cob_tab, hb_id, call, ret>>

\* The frame in which the device reports the time it was given: TPDO3
\* (days, ticks) for an 'A' product, TPDO4 (counter, ticks, days) otherwise
TimeFrame(q) == IF IsAcc(model)
                THEN [id |-> COB.TPDO3, data |-> SubSeq(q, 1, 2) \o SubSeq(q, 3, 6)]
                ELSE [id |-> COB.TPDO4, data |-> <<5, 0>> \o SubSeq(q, 3, 6) \o SubSeq(q, 1, 2)]

\* The branch of the loop that unpacks time_days and time_millisecs from
\* the frame, and the time stamp print_row / print_row_acc computes from them
DeviceTime ==
    /\ pc = "time_sent"
    /\ LET f == TimeFrame(trace[Len(trace)].data)
           d == f.data
       IN  /\ msg' = f
           /\ ret' = IF IsAcc(model)
                     THEN time_stamp_(U16At(d, 1), U32Val(U32At(d, 3)))
                     ELSE time_stamp_(U16At(d, 7), U32Val(U32At(d, 3)))
    /\ pc' = "time_ret"
    /\ UNCHANGED <<args, waiting, skipped, trace, busOpen, tasks, err, interrupted>>
    /\ UNCHANGED <<session, profile, rcall, rcode, rexc, cob_tab, hb_id, call>>

NextTime ==
    \/ CallTimeSend
    \/ DeviceTime

SpecTime == InitTime /\ [][NextTime]_vars

\* ------------------------------------------------------------------------
\* Properties
\* ------------------------------------------------------------------------
\* This step is one iteration of the streaming loop; it processed msg'
FrameStep == pc = "stream" /\ pc' \in {"stream", "sd", "crash"}

\* The completion mask after the dispatch of frame f, before the test
Accumulated(f) == IF f.id # HBID[1] /\ TpdoOf(f) > 0
                  THEN BitOr(tpdo_captured, TpdoBit(TpdoOf(f)))
                  ELSE tpdo_captured

\* This step handed one more row to the output
Emitted == Len(samples') = Len(samples) + 1

\* C1: with target mask TPDO1+TPDO2, no Sample is emitted while only one
\* of TPDO1, TPDO2 has arrived, and exactly one Sample is emitted when the
\* second of them is processed, in either order.
C1_PdoCompletion ==
    [][(FrameStep /\ tpdo_flg = 3 /\ TpdoOf(msg') \in {1, 2}) =>
          IF tpdo_captured = 0 THEN samples' = samples
          ELSE IF tpdo_captured + TpdoBit(TpdoOf(msg')) = 3 THEN Emitted
          ELSE TRUE]_vars

\* C2: a Sample is emitted after processing a frame exactly when the
\* accumulated mask equals the target mask, and the mask is zero right
\* after every emission.
C2_EmitIffComplete ==
    [][FrameStep =>
          /\ Emitted <=> (Accumulated(msg') = tpdo_flg)
          /\ Emitted \/ samples' = samples
          /\ Emitted => tpdo_captured' = 0]_vars

\* C3: the k-th emitted Sample carries index k-1; the index grows by one
\* per emitted Sample and is unchanged by a frame that emits none; every
\* completed cycle produces exactly one Sample.
C3_SampleIndex ==
    /\ [](/\ index = Len(samples)
          /\ \A k \in 1..Len(samples) : samples[k].index = k - 1)
    /\ [][FrameStep =>
             IF Accumulated(msg') = tpdo_flg
             THEN Emitted /\ index' = index + 1
             ELSE samples' = samples /\ index' = index]_vars

\* The names of the tables of setModel and set_SCL
ShortNames == {"G320", "G354", "G570", "MIU"}
LongNames == {"G364PDC0", "G364PDCA"}
FamilyNames == {"G365PDC", "G370PDC", "G365PDF", "G370PDF", "G552PR7", "G552PR1",
                "G570PR1", "G552PC1", "G552PC7", "G570PR2", "G370PDG", "G550PC2",
                "G55T2A0", "G55P200", "A552AC1", "A55A200"}

\* The product code c matches an entry of the tables, by name or by its
\* seven-character family prefix
KnownCode(c) == \/ c \in ShortNames
                \/ c \in LongNames
                \/ Len(c) >= 7 /\ Slice(c, 7) \in FamilyNames

\* C4: when the device reports a product code of no known family, no
\* Sample is ever produced in the session, whatever the options.
C4_UnknownProfileNoSample ==
    (Len(model) = 8 /\ ~KnownCode(model)) => samples = <<>>

\* C5: the resolver never returns scale factors for a product code that
\* matches no table entry; it fails instead.
C5_UnknownCodeRejected ==
    (rcall = "set_SCL" /\ ~KnownCode(rcode)) => rexc # "none"

\* This step is one iteration of the wait of an SDO write; it took msg'
WriteWaitStep == /\ pc \in SdoPcs
                 /\ waiting
                 /\ pc' \notin {"done", "exit"}
                 /\ Req(pc).kind = "write"

\* C6 as stated: an SDO write does not return on an RSDO frame that echoes
\* an index other than the requested one; it keeps waiting.
C6_WaitsForMatchingIndex ==
    [][(/\ WriteWaitStep
        /\ msg'.id = COB.RSDO
        /\ Len(msg'.data) = 8
        /\ U16At(msg'.data, 2) # Req(pc).index) => (waiting' /\ pc' = pc)]_vars

\* C6 as amended: an SDO write returns on the first 8-byte frame carrying
\* the RSDO identifier, whatever index it echoes; only frames on other
\* identifiers are skipped while it keeps waiting.
C6_ReturnsOnFirstRsdo ==
    [][WriteWaitStep =>
          IF msg'.id = COB.RSDO
          THEN Len(msg'.data) = 8 => (~waiting' /\ pc' # pc /\ pc' # "crash")
          ELSE waiting' /\ pc' = pc]_vars

\* An SDO write has just returned on a frame echoing another index
C6_Witness ==
    /\ pc = "sn74"
    /\ ~waiting
    /\ msg.id = COB.RSDO
    /\ U16At(msg.data, 2) = OtherIndex

\* C7: a malformed SDO response aborts the configuration with a
\* ConfigurationFailed error.
C7_ConfigurationFailed ==
    (msg.id = COB.RSDO /\ Len(msg.data) # 8) => err = "ConfigurationFailed"

\* The three bus calls of the shutdown sequence
ShutdownCalls == <<[op |-> "send", id |-> 0, data |-> <<128, args.can_id>>],
                   [op |-> "stop_all_periodic_tasks", id |-> -1, data |-> <<>>],
                   [op |-> "shutdown", id |-> -1, data |-> <<>>]>>

\* The shutdown sequence has been executed
ShutDown == /\ ~busOpen
            /\ tasks = {}
            /\ Len(trace) >= 3
            /\ SubSeq(trace, Len(trace) - 2, Len(trace)) = ShutdownCalls

\* C8: on every fatal path after the transport has been opened the
\* session sends NMT Pre-Operational, stops the periodic tasks and closes
\* the transport before the process terminates.
C8_ShutdownOnFatal ==
    (pc \in {"exit", "crash"} /\ trace # <<>>) => ShutDown

\* C9: a user interrupt received after the transport is open stops frame
\* consumption and is followed, in this order, by NMT Pre-Operational,
\* stopping the periodic tasks and closing the transport; no Sample is
\* emitted after it.
C9_InterruptShutdown ==
    [][/\ (~interrupted /\ interrupted' /\ busOpen) =>
              /\ trace' = trace \o ShutdownCalls
              /\ ~busOpen'
              /\ tasks' = {}
              /\ samples' = samples
              /\ msg' = msg
              /\ pc' = "done"
       /\ interrupted => (samples' = samples /\ msg' = msg /\ trace' = trace)]_vars

\* The session was interrupted in the middle of a cycle, after a Sample,
\* with the SYNC task running or not
C9_Witness ==
    /\ interrupted
    /\ pc = "done"
    /\ Len(samples) = 1
    /\ args.max_sample = 2
    /\ tpdo_captured # 0

\* A frame sent, reduced to its kind and, for an SDO request, the object
Abs(e) == IF e.id = 0 THEN [k |-> "NMT", a |-> e.data[1], b |-> 0]
          ELSE IF e.id = 256 THEN [k |-> "TIME", a |-> 0, b |-> 0]
          ELSE [k |-> IF e.data[1] = 64 THEN "R" ELSE "W", a |-> U16At(e.data, 2), b |-> e.data[4]]

AbsSeq(q) == [i \in 1..Len(q) |-> Abs(q[i])]
IsSend(e) == e.op = "send"
Opt(c, q) == IF c THEN q ELSE <<>>
Rd(a, b) == [k |-> "R", a |-> a, b |-> b]
Wr(a, b) == [k |-> "W", a |-> a, b |-> b]

\* The order of section 4.5: Pre-Operational, TIME, product code, version,
\* serial number, CAN id, bit rate, mode, rate, filter, temperature TPDO,
\* the four TPDO objects, apply, save, Start
ClaimedOrder ==
    LET t == IF Slice(model, 1) = "A" THEN 6147 ELSE 6146
    IN  <<[k |-> "NMT", a |-> 128, b |-> 0], [k |-> "TIME", a |-> 0, b |-> 0],
          Rd(4104, 0), Rd(4105, 0), Rd(4106, 0),
          Wr(12288, 126), Rd(12288, 116), Rd(12288, 118), Rd(12288, 120), Rd(12288, 122),
          Wr(12288, 126)>>
        \o Opt(args.can_id # args.can_id_new, <<Wr(8192, 1)>>)
        \o Opt(args.bitrate # args.bitrate_new, <<Wr(8192, 2)>>)
        \o <<Wr(6144, 2), Wr(8193, 0)>>
        \o Opt(args.filter # "None", <<Wr(24993, 1)>>)
        \o Opt(args.tempc, <<Rd(t, 1), Wr(t, 1)>>)
        \o <<Rd(6144, 1), Rd(6145, 1), Rd(6146, 1), Rd(6147, 1), Wr(8197, 0)>>
        \o Opt(args.svcfg, <<Wr(4112, 1)>>)
        \o <<[k |-> "NMT", a |-> 1, b |-> 0]>>

\* The frames sent by the configuration sequencer: every frame sent,
\* except the Pre-Operational frame of the shutdown sequence
ConfigSent == LET F == SelectSeq(trace, IsSend)
              IN  IF pc = "done" THEN SubSeq(F, 1, Len(F) - 1) ELSE F

\* C10: the sequencer sends its frames in the order of section 4.5, NMT
\* Start last, and no SDO request is sent after Start.
C10_ConfigOrder ==
    /\ IsPrefix(AbsSeq(ConfigSent), ClaimedOrder)
    /\ pc \in {"sync", "stream", "sd"} => AbsSeq(ConfigSent) = ClaimedOrder

\* Streaming was reached with every optional step of the sequence taken
C10_Witness ==
    /\ pc = "stream"
    /\ args.can_id # args.can_id_new
    /\ args.bitrate # args.bitrate_new
    /\ args.filter # "None"
    /\ args.tempc
    /\ args.svcfg

\* An NMT frame with command c is among the frames sent so far
NmtSent(c) == \E i \in 1..Len(trace) :
                 /\ trace[i].op = "send"
                 /\ trace[i].id = 0
                 /\ trace[i].data[1] = c

\* This step sends an SDO request
SdoRequestStep == /\ Len(trace') = Len(trace) + 1
                  /\ trace'[Len(trace')].op = "send"
                  /\ trace'[Len(trace')].id = 1536 + args.can_id

\* This step is one iteration of the wait of an SDO call; it took msg'
SdoWaitStep == pc \in SdoPcs /\ waiting /\ pc' \notin {"done", "exit"}

\* C11: every SDO request is sent, and every frame of an SDO wait is
\* consumed, after NMT Pre-Operational (0x80) and before NMT Start (0x01);
\* the streaming loop consumes frames only after NMT Start.
C11_SdoBeforeStart ==
    [][/\ (SdoRequestStep \/ SdoWaitStep) => (NmtSent(128) /\ ~NmtSent(1))
       /\ FrameStep => NmtSent(1)]_vars

\* The streaming loop has consumed a TPDO frame after the SDO phase
C11_Witness ==
    /\ pc = "stream"
    /\ tpdo_captured # 0
    /\ \E i \in 1..Len(trace) : trace[i].op = "send" /\ trace[i].id = 1536 + args.can_id

\* The functions of the identifier table other than the per-node heartbeats
FunctionNames == {"NMT", "SYNC", "TIME", "TPDO1", "TPDO2", "TPDO3", "TPDO4",
                  "RSDO", "TSDO", "HB", "HBx"}

\* The derived identifier set, as pairs <<name, identifier>>
Derived == {<<n, cob_tab[n]>> : n \in FunctionNames}
           \cup {<<"HB" \o str(i), hb_id[i]>> : i \in DOMAIN hb_id}

\* The derivation has run on a node id in [1,127] and a node count in [1,8]
DerivedInRange == /\ pc = "derived"
                  /\ args.can_id \in 1..127
                  /\ args.node_num \in 1..8

\* C12 as stated: the derived identifiers are pairwise distinct across all
\* functions and all heartbeat nodes.
C12_PairwiseDistinct ==
    DerivedInRange => \A p, q \in Derived : p # q => p[2] # q[2]

\* C12 as amended: two names share an identifier only when they are HBx and
\* the heartbeat HB<i> of node i = node id, which happens exactly when the
\* node id is at most the node count; all other identifiers are distinct.
C12_DistinctExceptOwnHeartbeat ==
    DerivedInRange =>
        /\ \A p, q \in Derived :
               (p # q /\ p[2] = q[2]) => {p[1], q[1]} = {"HBx", "HB" \o str(args.can_id)}
        /\ (args.can_id <= args.node_num) <=>
               (\E p, q \in Derived : p # q /\ p[2] = q[2])

\* The derivation has run for node 2 of 8 nodes: HBx is the heartbeat of HB2
C12_Witness ==
    /\ pc = "derived"
    /\ args.can_id = 2
    /\ args.node_num = 8
    /\ cob_tab.HBx = hb_id[2]
    /\ cob_tab.TPDO1 = 386

\* C13: a derivation with a node id outside [1,127] or a node count
\* outside [1,8] is rejected with InvalidNodeId and leaves the identifier
\* tables as they were.
C13_InvalidNodeIdRejected ==
    /\ (pc \in {"derive_hb", "derived"} /\ args.can_id \notin 1..127) =>
           (rexc = "InvalidNodeId" /\ cob_tab = cob_id)
    /\ (pc = "derived" /\ args.node_num \notin 1..8) =>
           (rexc = "InvalidNodeId" /\ hb_id = <<>>)

\* The response taken by the call echoes the index, the sub-index and the
\* payload bytes of the request
EchoesRequest == /\ pc = "sdo_ret"
                 /\ SubSeq(msg.data, 2, 8) = SubSeq(trace[Len(trace)].data, 2, 8)

\* C14: an SDO write of width 1, 2 or 4 whose response echoes the index,
\* the sub-index and the payload bytes of the request decodes to the
\* original index, sub-index and value.
C14_WriteRoundTrip ==
    (EchoesRequest /\ call.kind = "write") =>
        /\ ret.rindex = call.index
        /\ ret.rsubindex = call.sub
        /\ ret.rdat[4] < 128
        /\ U32Val(ret.rdat) = call.dat

\* A 2-byte write of 0xFFFF to index 0x0100 has been echoed and decoded
C14_Witness ==
    /\ EchoesRequest
    /\ call.kind = "write"
    /\ call.byte = 2
    /\ call.index = 256
    /\ call.dat = 65535
    /\ ret.rindex = 256

\* The request frame of the call, once sent
Request == trace[Len(trace)]

\* C15: every SDO request is one 8-byte frame on the TSDO identifier; its
\* command byte is 0x2F, 0x2B or 0x23 for a write of 1, 2 or 4 bytes and
\* 0x40 with a zero payload for a read of any width; bytes 1-2 are the
\* index, little-endian, and byte 3 the sub-index.
C15_RequestFormat ==
    (pc \in {"sdo_wait", "sdo_ret"}) =>
        /\ Len(trace) = 1
        /\ Request.op = "send"
        /\ Request.id = 1536 + args.can_id
        /\ Len(Request.data) = 8
        /\ Request.data[1] = (IF call.kind = "read" THEN 64
                              ELSE IF call.byte = 1 THEN 47
                              ELSE IF call.byte = 2 THEN 43
                              ELSE 35)
        /\ Request.data[2] = call.index % 256
        /\ Request.data[3] = call.index \div 256
        /\ Request.data[4] = call.sub
        /\ call.kind = "read" => SubSeq(Request.data, 5, 8) = <<0, 0, 0, 0>>
        /\ (call.kind = "write" /\ call.byte = 1) =>
               SubSeq(Request.data, 5, 8) = <<call.dat, 0, 0, 0>>

\* A 2-byte read of index 0xFFFF has been sent to node 127
C15_Witness ==
    /\ pc = "sdo_wait"
    /\ call.kind = "read"
    /\ call.byte = 2
    /\ call.index = 65535
    /\ args.can_id = 127

\* The configured heartbeat identifiers HB1..HBN
HeartbeatIds == {hb_id[i] : i \in DOMAIN hb_id}

\* Frame f carries neither a heartbeat identifier nor one of TPDO1..4
Unrecognized(f) == f.id \notin HeartbeatIds /\ TpdoOf(f) = 0

\* C16: during streaming a frame on an unrecognized identifier leaves the
\* completion mask, the slots and the sample index unchanged, emits no
\* Sample and does not end the session: the loop goes on.
C16_UnrecognizedSkipped ==
    [][(FrameStep /\ Unrecognized(msg')) =>
          /\ tpdo_captured' = tpdo_captured
          /\ bound' = bound
          /\ index' = index
          /\ samples' = samples
          /\ err' = err
          /\ pc' = "stream"]_vars

\* This step took the heartbeat branch of the loop
HeartbeatHandled == hb1_num' = hb1_num + 1

\* C17: during streaming a frame on any configured heartbeat identifier
\* HB1..HBN is handled as a heartbeat, with the mask and the slots left
\* unchanged, and the reset-detected condition, raised in the heartbeat
\* branch, is raised exactly for identifier 0x700 + node id.
C17_HeartbeatOfEveryNode ==
    [][FrameStep =>
          /\ msg'.id \in HeartbeatIds =>
                 /\ HeartbeatHandled
                 /\ tpdo_captured' = tpdo_captured
                 /\ bound' = bound
          /\ HeartbeatHandled <=> (msg'.id = 1792 + args.can_id)]_vars

\* Bit x-1 of the mask m is set
MaskBit(m, x) == (m \div (2 ^ (x - 1))) % 2 = 1

\* C18: once Start has been sent, bit x-1 of the target mask is set exactly
\* when bit 31 of the value read at 0x1800+x-1 sub 1 is clear, and neither
\* the mask nor the values read change afterwards.
C18_TargetMask ==
    /\ [](NmtSent(1) => \A x \in 1..4 : MaskBit(tpdo_flg, x) <=> (rd[x][4] < 128))
    /\ [][NmtSent(1) => (tpdo_flg' = tpdo_flg /\ rd' = rd)]_vars

\* Streaming with TPDO1 and TPDO3 enabled, TPDO2 and TPDO4 disabled, one
\* frame of the cycle received
C18_Witness ==
    /\ pc = "stream"
    /\ tpdo_flg = 5
    /\ rd[2][4] >= 128
    /\ rd[4][4] >= 128
    /\ tpdo_captured = 1

\* A write to the filter object 0x61A1 sub 1 is among the frames sent
FilterWritten == \E i \in 1..Len(trace) :
                    /\ trace[i].op = "send"
                    /\ trace[i].id = 1536 + args.can_id
                    /\ trace[i].data[1] # 64
                    /\ U16At(trace[i].data, 2) = 24993
                    /\ trace[i].data[4] = 1

\* C19: when no filter is given on the command line, a filter code has
\* still been written to 0x61A1 sub 1 by the time Start is sent.
C19_FilterAutoSelected ==
    (args.filter = "None" /\ NmtSent(1)) => FilterWritten

\* This step sent a TIME message
TimeSentStep == /\ Len(trace') = Len(trace) + 1
                /\ trace'[Len(trace')].op = "send"
                /\ trace'[Len(trace')].id = 256

\* C20: with --time_per_nsamples N, the iteration that emits the Sample
\* of an index that is a multiple of N sends a TIME message.
C20_TimePerNSamples ==
    [][(/\ FrameStep
        /\ Emitted
        /\ args.time_per_nsamples # 0
        /\ index % args.time_per_nsamples = 0) => TimeSentStep]_vars

\* C21: the streaming loop never emits more than max_sample Samples, and
\* it consumes no frame once max_sample Samples have been emitted.
C21_AtMostMaxSample ==
    /\ [](Len(samples) <= args.max_sample)
    /\ [][FrameStep => Len(samples) < args.max_sample]_vars

\* The decoded time stamp equals the instant encoded, to the millisecond
SameMillisecond == /\ ret.days = call.days
                   /\ ret.seconds = call.seconds
                   /\ ret.microseconds \div 1000 = call.microseconds \div 1000

\* C22 as stated: every instant at or after 1984-01-01 is encoded as a
\* TIME message and decodes to the same instant, to the millisecond.
C22_TimeRoundTripAlways ==
    /\ pc # "time_err"
    /\ pc = "time_ret" => SameMillisecond

\* C22 as amended: an instant up to 65535 days after 1984-01-01 is encoded
\* and decodes to the same instant, to the millisecond; a later instant is
\* not encoded at all, the days field being 16 bits wide.
C22_TimeRoundTrip ==
    /\ pc = "time_ret" => (call.days <= 65535 /\ SameMillisecond)
    /\ pc = "time_err" => (call.days > 65535 /\ trace = <<>>)
    /\ (pc = "time_sent" /\ call.days = 14000 /\ call.seconds = 0
           /\ call.microseconds = 10500) =>
           trace[1].data = <<176, 54, 168, 0, 0, 0>>

\* The last microsecond of day 65535 has made the round trip through the
\* frame of the combined family
C22_Witness ==
    /\ pc = "time_ret"
    /\ model = "G570PR20"
    /\ call = [days |-> 65535, seconds |-> 86399, microseconds |-> 999999]
    /\ ret = [days |-> 65535, seconds |-> 86399, microseconds |-> 999938]

\* The code is "G570PR2" or has it as its first seven characters
IsG570PR2(c) == Len(c) >= 7 /\ SubSeq(c, 1, 7) = "G570PR2"

\* A TPDO4 payload of the 16-bit layout: counter 5, ticks 160, days 14000
Tpdo4Scenario == <<5, 0, 160, 0, 0, 0, 176, 54>>

\* C23: "G570PR2", alone or as a seven-character prefix, resolves to gyro
\* scale 0.0151515, accel scale 0.5, temperature scale 0.0039063, offset 0
\* and the 16-bit layout; days 14000 and ticks 160 of a TPDO4 frame give
\* the device time 1984-01-01 + 14000 days + 10 ms.
C23_G570PR2Profile ==
    /\ (rcall = "set_SCL" /\ IsG570PR2(rcode)) =>
           /\ rexc = "none"
           /\ scl = [GYRO_SF |-> <<151515, -7>>, ACCL_SF |-> <<5, -1>>,
                     TEMPC_SF |-> <<39063, -7>>, TEMPC_25C |-> <<0, 0>>]
    /\ (rcall = "get_pdo_struct_fmt" /\ IsG570PR2(rcode)) =>
           /\ layout = [STRUCT_TPDO1 |-> "<Hhhh", STRUCT_TPDO2 |-> "<Hhhh",
                        STRUCT_TPDO3 |-> "<Hhhh", STRUCT_TPDO4 |-> "<HIH"]
           /\ Len(Tpdo4Scenario) = calcsize(layout.STRUCT_TPDO4)
           /\ time_stamp_(U16At(Tpdo4Scenario, 7), U32Val(U32At(Tpdo4Scenario, 3)))
                  = [days |-> 14000, seconds |-> 0, microseconds |-> 10000]

\* The layout of "G570PR2" has been resolved after its scales
C23_Witness ==
    /\ rcall = "get_pdo_struct_fmt"
    /\ rcode = "G570PR2"
    /\ scl.ACCL_SF = <<5, -1>>
    /\ layout.STRUCT_TPDO4 = "<HIH"

TempObject == IF Len(model) >= 1 /\ SubSeq(model, 1, 1) = "A" THEN 6147 ELSE 6146

\* The number of the TPDO of that object
TempTpdo == TempObject - 6143

\* The frame e is an SDO write to sub-index 1 of the object idx
IsWriteTo(e, idx) == /\ e.op = "send"
                     /\ e.id = 1536 + args.can_id
                     /\ e.data[1] # 64
                     /\ U16At(e.data, 2) = idx
                     /\ e.data[4] = 1

\* The frame e is an SDO read of sub-index 1 of the object idx
IsReadOf(e, idx) == /\ e.op = "send"
                    /\ e.id = 1536 + args.can_id
                    /\ e.data = <<64>> \o LE16(idx) \o <<1, 0, 0, 0, 0>>

\* The read of 0x1800 sub 1, the first read of the target mask, has been sent
MaskReadSent == \E i \in 1..Len(trace) : IsReadOf(trace[i], 6144)

\* The writes to the temperature object among the frames sent
TempWrites == {i \in 1..Len(trace) : IsWriteTo(trace[i], TempObject)}

\* This step sends a write to 0x1802 sub 1 or 0x1803 sub 1
TempWriteStep == /\ SdoRequestStep
                 /\ (IsWriteTo(trace'[Len(trace')], 6146) \/ IsWriteTo(trace'[Len(trace')], 6147))

\* C25: with --tempc the sequencer reads sub 1 of the temperature TPDO
\* object of the family, writes the value read back with bit 31 cleared and
\* all other bits kept, before it reads the target mask; when the device
\* then returns the written value, the target mask has the bit of that
\* TPDO. Without --tempc no write to 0x1802 sub 1 or 0x1803 sub 1 is sent.
C25_TemperatureTpdo ==
    /\ [][TempWriteStep =>
            /\ args.tempc
            /\ IsReadOf(trace[Len(trace)], TempObject)
            /\ msg.id = 1408 + args.can_id
            /\ trace'[Len(trace')].data =
                   <<35>> \o LE16(TempObject) \o <<1, msg.data[5], msg.data[6],
                                                   msg.data[7], msg.data[8] % 128>>
            /\ ~MaskReadSent]_vars
    /\ []((args.tempc /\ MaskReadSent) => TempWrites # {})
    /\ []((args.tempc /\ NmtSent(1)) =>
            \A i \in TempWrites :
                rd[TempTpdo] = U32At(trace[i].data, 5) => MaskBit(tpdo_flg, TempTpdo))
    /\ [](~args.tempc => \A i \in 1..Len(trace) :
                             ~IsWriteTo(trace[i], 6146) /\ ~IsWriteTo(trace[i], 6147))

\* An 'A' product was started with --tempc: 0x181 was written to 0x1803 sub 1,
\* the device returned it, and the target mask has the bit of TPDO4
C25_Witness ==
    /\ args.tempc
    /\ NmtSent(1)
    /\ model = "A552AC10"
    /\ \E i \in TempWrites : trace[i].data = <<35, 3, 24, 1, 129, 1, 0, 0>>
    /\ rd[4] = <<129, 1, 0, 0>>
    /\ MaskBit(tpdo_flg, 4)

\* The frame e is an SDO write of v to the object idx, sub-index subindex
IsWriteOf(e, idx, subindex, v) == /\ e.op = "send"
                                  /\ e.id = 1536 + args.can_id
                                  /\ e.data[1] \in {47, 43, 35}
                                  /\ U16At(e.data, 2) = idx
                                  /\ e.data[4] = subindex
                                  /\ U32At(e.data, 5) = LE32(v)

\* The rate write of ev_mode has been sent or could not be made
RateDecided == (pc = "rate" /\ waiting) \/ pc = NextPc("rate") \/ err = "KeyError"

\* A write to the rate object 0x2001 sub 0 is among the frames sent
RateWritten == \E i \in 1..Len(trace) : /\ trace[i].op = "send"
                                        /\ trace[i].data[1] # 64
                                        /\ U16At(trace[i].data, 2) = 8193

\* The family's table of the claim: DRATE_SEL2 for A552AC1, else DRATE_SEL
FamilyRates == IF Len(model) >= 7 /\ SubSeq(model, 1, 7) = "A552AC1" THEN DRATE_SEL2 ELSE DRATE_SEL

\* C26: in event-driven mode, a request for a rate of the family's table
\* writes 0xFE to 0x1800 sub 2 and then the code of that rate to 0x2001
\* sub 0; a request for a rate that is not in the table writes no rate.
C26_EveryListedRate ==
    RateDecided =>
        /\ \A k \in DOMAIN FamilyRates :
               args.drate = float(k) =>
                   /\ Len(trace) = 2
                   /\ IsWriteOf(trace[1], 6144, 2, 254)
                   /\ IsWriteOf(trace[2], 8193, 0, FamilyRates[k])
        /\ (\A k \in DOMAIN FamilyRates : args.drate # float(k)) => ~RateWritten

\* The same, for the rates of the table that are whole numbers of Hz
C26_WholeRates ==
    RateDecided =>
        /\ \A k \in DOMAIN FamilyRates :
               (args.drate = float(k) /\ args.drate % 1000 = 0) =>
                   /\ Len(trace) = 2
                   /\ IsWriteOf(trace[1], 6144, 2, 254)
                   /\ IsWriteOf(trace[2], 8193, 0, FamilyRates[k])
        /\ (\A k \in DOMAIN FamilyRates : args.drate # float(k)) => ~RateWritten

\* This step starts the periodic SYNC task
SyncStartStep == /\ Len(trace') = Len(trace) + 1
                 /\ trace'[Len(trace')].op = "send_periodic"
                 /\ trace'[Len(trace')].id = 128

\* This step is an emission of the periodic SYNC task
SyncEmitStep == /\ Len(trace') = Len(trace) + 1
                /\ trace'[Len(trace')].op = "periodic"

\* The positions of the trace where op was called
Calls(op) == {i \in 1..Len(trace) : trace[i].op = op}

\* C27: the periodic SYNC task is started only in a session that wrote
\* 0x01 to 0x1800 sub 2, and after NMT Start; when the transport is closed
\* in a session that started the task, the task was stopped before; an
\* emission of the task changes neither the completion mask, the bound
\* values, the sample index nor the emitted Samples.
C27_SyncEmitter ==
    /\ [][SyncStartStep =>
            /\ \E i \in 1..Len(trace) : IsWriteOf(trace[i], 6144, 2, 1)
            /\ NmtSent(1)]_vars
    /\ [](\A i \in Calls("shutdown") : \A j \in Calls("send_periodic") :
              j < i => (tasks = {} /\ \E k \in Calls("stop_all_periodic_tasks") : j < k /\ k < i))
    /\ [](tasks # {} => (Calls("send_periodic") # {} /\ Calls("shutdown") = {}))
    /\ [][SyncEmitStep => UNCHANGED <<tpdo_captured, bound, index, samples, hb_captured, rd, tpdo_flg>>]_vars

\* The task emitted a SYNC frame during streaming, a Sample was emitted, and
\* the session has then stopped the task and closed the transport
C27_Witness ==
    /\ pc = "done"
    /\ Len(samples) >= 1
    /\ \E i \in Calls("periodic") : i + 3 = Len(trace)
    /\ Calls("shutdown") # {}
    /\ tasks = {}

\* max_sample Samples were emitted and the shutdown sequence has run
Completed == pc = "done" /\ Len(samples) = args.max_sample /\ ShutDown

\* C28: with a transport that does not fail, a device that answers every
\* SDO request and that keeps sending the TPDOs of a non-empty target mask
\* and no other, a session that has sent Start eventually has emitted
\* max_sample Samples, left the loop and completed the shutdown sequence.
C28_EventuallyShutDown == (NmtSent(1) /\ tpdo_flg # 0) ~> Completed

\* The same, for a target mask that has the TPDOs whose branches assign the
\* values the row reads: TPDO1, and TPDO3 for a product that is not 'A'
C28_WhenRowValuesArrive ==
    (/\ NmtSent(1)
     /\ MaskBit(tpdo_flg, 1)
     /\ IsAcc(model) \/ MaskBit(tpdo_flg, 3)) ~> Completed

\* A TPDO outside the target mask has arrived since the last Sample
ForeignArrived == \E x \in 1..4 : MaskBit(tpdo_captured, x) /\ ~MaskBit(tpdo_flg, x)

\* With the frame f, every TPDO of the target mask has arrived since the
\* last Sample
MaskArrived(f) == \A x \in 1..4 : MaskBit(tpdo_flg, x) => MaskBit(Accumulated(f), x)

\* C29: after a TPDO frame that is not in the target mask, the frame with
\* which every TPDO of the target mask has arrived still emits a Sample.
C29_ForeignTpdoTolerated ==
    [][(/\ FrameStep
        /\ tpdo_flg # 0
        /\ ForeignArrived
        /\ TpdoOf(msg') > 0
        /\ MaskBit(tpdo_flg, TpdoOf(msg'))
        /\ MaskArrived(msg')) => Emitted]_vars

\* C30: for every target mask, the empty mask included, the iteration that
\* processes a heartbeat frame or a frame of an unrecognized identifier
\* emits no Sample.
C30_OnlyTpdoEmits ==
    [][(FrameStep /\ (msg'.id = HBID[1] \/ TpdoOf(msg') = 0)) => samples' = samples]_vars

\* With the empty target mask a heartbeat or an unrecognized frame was
\* processed after Start: the completion test held, the row could not be
\* built, and no Sample has been emitted
C30_Witness ==
    /\ NmtSent(1)
    /\ tpdo_flg = 0
    /\ pc = "crash"
    /\ err = "UnboundLocalError"
    /\ msg.id \in {HBID[1], 1794}
    /\ tpdo_captured = 0
    /\ samples = <<>>

\* The completion test holds in this iteration of the loop
CompletionFires == FrameStep /\ Accumulated(msg') = tpdo_flg

\* The values the claim names are assigned when the row is built: the
\* receive timestamp, and angx for a product that is not 'A'
RowValuesAssigned ==
    /\ "can_timestamp" \in bound'
    /\ (Len(model) >= 1 /\ SubSeq(model, 1, 1) # "A") => "angx" \in bound'

\* C31: whenever the completion test holds, the receive timestamp and, for
\* the combined family, the angular value read as temperature input have
\* been assigned, and the row is built.
C31_ValuesAssigned ==
    [][CompletionFires => (RowValuesAssigned /\ err' = "none")]_vars

\* The same, for the target masks that have the TPDOs whose branches assign
\* those values; the timestamp is then the one of the TPDO1 frame of the
\* cycle that completes
C31_WhenMaskHasSources ==
    [][(/\ CompletionFires
        /\ MaskBit(tpdo_flg, 1)
        /\ IsAcc(model) \/ MaskBit(tpdo_flg, 3)) =>
           /\ RowValuesAssigned
           /\ err' = "none"
           /\ Emitted
           /\ MaskBit(Accumulated(msg'), 1)]_vars

\* The payload of the last frame of TPDO k, the frame of this iteration
\* included
MostRecent(k) == IF TpdoOf(msg') = k THEN msg'.data ELSE recent[k].data

\* A frame of TPDO k has arrived since the previous Sample, or since the
\* loop was entered
ArrivedThisCycle(k) == TpdoOf(msg') = k \/ recent[k].cycle

\* C32: the fields of every TPDO of the target mask in an emitted Sample
\* are those of the last frame of that TPDO, and that frame arrived after
\* the previous Sample was emitted, or after the loop was entered.
C32_FreshFields ==
    [][Emitted =>
          \A k \in 1..4 :
              MaskBit(tpdo_flg, k) =>
                  /\ samples'[Len(samples')].fields[k] = MostRecent(k)
                  /\ ArrivedThisCycle(k)]_vars

\* With target mask TPDO1+TPDO2 two Samples were emitted, the second with
\* other TPDO2 fields than the first
C32_Witness ==
    /\ tpdo_flg = 3
    /\ model = "A552AC10"
    /\ Len(samples) = 2
    /\ samples[1].fields[2] # samples[2].fields[2]
    /\ samples[2].fields[2] = recent[2].data

====
